---- MODULE Spec2Model ----
(***************************************************************************)
(* Model of the chunked multi-model extraction pipeline of app/: the text  *)
(* sanitizer and parser of app/logic.py, the fan-out of app/llm.py and the *)
(* /analyze-multi handler with its progress store of app/main.py.          *)
(*                                                                         *)
(* A text is a sequence of tokens.  The characters the code looks at one   *)
(* by one (brackets, braces, quotes, backslash, colon, comma, digits,      *)
(* sign, point, blank, newline) are one token each; a run of letters that  *)
(* the code never splits ("page_index", "credit", ...), a code fence       *)
(* marker and a think tag are one token each.                              *)
(***************************************************************************)
EXTENDS Integers, Sequences, FiniteSets, TLC

\* ------------------------------------------------------------------------
\* Characters
\* ------------------------------------------------------------------------

DQ == "\""
BS == "\\"
SQ == "'"
NL == "\n"
SP == " "
\* the three backquotes of a code fence, as one token
FENCE == "<fence>"

\* str.isspace / the regex class \s / JSON whitespace, within the alphabet
WS == {SP, NL}

Digits == {"0", "1", "2", "3", "4", "5", "6", "7", "8", "9"}

DigitVal(d) ==
    CASE d = "0" -> 0 [] d = "1" -> 1 [] d = "2" -> 2 [] d = "3" -> 3
      [] d = "4" -> 4 [] d = "5" -> 5 [] d = "6" -> 6 [] d = "7" -> 7
      [] d = "8" -> 8 [] d = "9" -> 9

\* d[k] = v on a mapping d
Put(d, k, v) == [x \in DOMAIN d \cup {k} |-> IF x = k THEN v ELSE d[x]]

SetMin(S) == CHOOSE x \in S : \A y \in S : x <= y
SetMax(S) == CHOOSE x \in S : \A y \in S : x >= y

RECURSIVE Pow10(_)
Pow10(n) == IF n = 0 THEN 1 ELSE 10 * Pow10(n - 1)

\* s[a..b] as Python's s[a-1:b]; empty when b < a
Slice(s, a, b) == IF b < a THEN <<>> ELSE SubSeq(s, a, b)

\* str.find(ch, from): the first index >= from holding ch, 0 when there is none
Find(s, ch, from) ==
    LET hits == {j \in from..Len(s) : s[j] = ch}
    IN  IF hits = {} THEN 0 ELSE SetMin(hits)

\* str.strip()
Strip(s) ==
    LET keep == {j \in 1..Len(s) : s[j] \notin WS}
    IN  IF keep = {} THEN <<>> ELSE SubSeq(s, SetMin(keep), SetMax(keep))

\* the first index >= i that holds no whitespace (Len(s)+1 at the end)
SkipWs(s, i) == SetMin({j \in i..(Len(s) + 1) : j = Len(s) + 1 \/ s[j] \notin WS})

\* ------------------------------------------------------------------------
\* json.loads (the standard library's decoder, strict mode), on token texts.
\* A decoded value is a record tagged by t: "num" (m / 10^e, frac = written
\* with a fraction, i.e. a Python float), "str", "arr", "obj" (v a function
\* from keys to values, a repeated key keeping its last value), "true",
\* "false", "null".  The exponent form of numbers, \u escapes and the
\* literals NaN / Infinity are outside the alphabet.
\* ------------------------------------------------------------------------

JNull == [t |-> "null"]
JFail == [ok |-> FALSE, pos |-> 0, val |-> JNull]
JOk(p, v) == [ok |-> TRUE, pos |-> p, val |-> v]

Literals == {"true", "false", "null"}

\* What may follow a backslash in a JSON string: one of the characters
\* " \ / b f n r t, so also a word token that begins with one of the letters
\* (the escape then stands for a control character before the rest of it)
EscapeChars ==
    {DQ, BS, "/", "b", "f", "n", "r", "t"}
      \cup {"true", "false", "null", "transactions", "type", "refused"}
Unescape(c) == IF c \in {DQ, BS, "/"} THEN c ELSE "<ctl-" \o c \o ">"

DigitsEnd(s, j) == SetMin({k \in j..(Len(s) + 1) : k = Len(s) + 1 \/ s[k] \notin Digits})

\* the value of the digits s[a..b-1]
RECURSIVE DigitsVal(_, _, _)
DigitsVal(s, a, b) ==
    IF a >= b THEN 0 ELSE DigitsVal(s, a, b - 1) * 10 + DigitVal(s[b - 1])

\* NUMBER_RE of json.scanner: -?(0|[1-9]\d*)(\.\d+)?
ParseNumber(s, i) ==
    LET neg == i <= Len(s) /\ s[i] = "-"
        j   == IF neg THEN i + 1 ELSE i
        \* ie: after the integer part; hasfr: a fraction follows; fe: after it
        Number(ie, hasfr, fe, e) ==
            JOk(fe, [t |-> "num",
                     m |-> (IF neg THEN 0 - 1 ELSE 1)
                             * (DigitsVal(s, j, ie) * Pow10(e)
                                  + (IF hasfr THEN DigitsVal(s, ie + 1, fe) ELSE 0)),
                     e |-> e, frac |-> hasfr])
        Fraction(ie, hasfr, fe) ==
            Number(ie, hasfr, fe, IF hasfr THEN fe - (ie + 1) ELSE 0)
        Integer(ie, hasfr) ==
            Fraction(ie, hasfr, IF hasfr THEN DigitsEnd(s, ie + 1) ELSE ie)
        Sign(ie) ==
            Integer(ie, ie + 1 <= Len(s) /\ s[ie] = "." /\ s[ie + 1] \in Digits)
    IN  IF ~(j <= Len(s) /\ s[j] \in Digits) THEN JFail
        ELSE Sign(IF s[j] = "0" THEN j + 1 ELSE DigitsEnd(s, j))

\* The escape flag when the character at j is read, in a scan that started
\* at lo with the flag off: a backslash sets it, any next character clears
\* it, so it is on exactly after an odd run of backslashes
BsRun(s, lo, j) ==
    LET other == {k \in lo..(j - 1) : s[k] # BS}
    IN  IF other = {} THEN j - lo ELSE j - 1 - SetMax(other)

Escaped(s, lo, j) == BsRun(s, lo, j) % 2 = 1

\* the elements of a set of indices, in increasing order
Ascending(S) ==
    [k \in 1..Cardinality(S) |-> CHOOSE j \in S : Cardinality({x \in S : x < j}) = k - 1]

\* py_scanstring from the character after the opening quote: the string
\* ends at the first quote no backslash escapes; a raw newline (a control
\* character, strict mode) or a backslash before anything but an escape
\* character is an error
ScanString(s, i) ==
    LET lead(j) == s[j] = BS /\ ~Escaped(s, i, j)
        Chars(e, kept) ==
            JOk(e + 1, [t |-> "str", v |->
                  [k \in 1..Len(kept) |->
                     IF Escaped(s, i, kept[k]) THEN Unescape(s[kept[k]])
                     ELSE s[kept[k]]]])
        Upto(e) ==
            IF \E j \in i..(e - 1) :
                  s[j] = NL \/ (lead(j) /\ s[j + 1] \notin EscapeChars)
              THEN JFail
              ELSE Chars(e, Ascending({j \in i..(e - 1) : ~lead(j)}))
        Ends(ends) == IF ends = {} THEN JFail ELSE Upto(SetMin(ends))
    IN  Ends({j \in i..Len(s) : s[j] = DQ /\ ~Escaped(s, i, j)})

RECURSIVE ParseValue(_, _)
RECURSIVE ParseArrayItems(_, _, _)
RECURSIVE ParseObjectMembers(_, _, _)

\* JSONArray: i is where the next item must start, acc the items so far
ParseArrayItems(s, i, acc) ==
    LET After(item, j) ==
            IF j > Len(s) THEN JFail
            ELSE IF s[j] = "]"
              THEN JOk(j + 1, [t |-> "arr", v |-> Append(acc, item.val)])
            ELSE IF s[j] = ","
              THEN ParseArrayItems(s, SkipWs(s, j + 1), Append(acc, item.val))
            ELSE JFail
        Item(item) == IF ~item.ok THEN JFail ELSE After(item, SkipWs(s, item.pos))
    IN  Item(ParseValue(s, i))

\* JSONObject: i is where the next key's opening quote must be, acc the
\* members so far
ParseObjectMembers(s, i, acc) ==
    LET After(key, val, j) ==
            IF j > Len(s) THEN JFail
            ELSE IF s[j] = "}"
              THEN JOk(j + 1, [t |-> "obj", v |-> Put(acc, key.val.v, val.val)])
            ELSE IF s[j] = ","
              THEN ParseObjectMembers(s, SkipWs(s, j + 1),
                                      Put(acc, key.val.v, val.val))
            ELSE JFail
        Value(key, val) ==
            IF ~val.ok THEN JFail ELSE After(key, val, SkipWs(s, val.pos))
        Colon(key, c) ==
            IF ~(c <= Len(s) /\ s[c] = ":") THEN JFail
            ELSE Value(key, ParseValue(s, SkipWs(s, c + 1)))
        Key(key) == IF ~key.ok THEN JFail ELSE Colon(key, SkipWs(s, key.pos))
    IN  IF ~(i <= Len(s) /\ s[i] = DQ) THEN JFail
        ELSE Key(ScanString(s, i + 1))

\* scan_once: the value that starts at s[i]
ParseValue(s, i) ==
    IF i > Len(s) THEN JFail
    ELSE IF s[i] = DQ THEN ScanString(s, i + 1)
    ELSE IF s[i] = "{"
      THEN LET j == SkipWs(s, i + 1)
           IN  IF j <= Len(s) /\ s[j] = "}"
                 THEN JOk(j + 1, [t |-> "obj", v |-> <<>>])
                 ELSE ParseObjectMembers(s, j, <<>>)
    ELSE IF s[i] = "["
      THEN LET j == SkipWs(s, i + 1)
           IN  IF j <= Len(s) /\ s[j] = "]"
                 THEN JOk(j + 1, [t |-> "arr", v |-> <<>>])
                 ELSE ParseArrayItems(s, j, <<>>)
    ELSE IF s[i] \in Literals THEN JOk(i + 1, [t |-> s[i]])
    ELSE ParseNumber(s, i)

\* json.loads(text): one value between optional whitespace, nothing after it
json_loads(text) ==
    LET End(r) == IF r.ok /\ SkipWs(text, r.pos) = Len(text) + 1 THEN r ELSE JFail
    IN  End(ParseValue(text, SkipWs(text, 1)))


\* ------------------------------------------------------------------------
\* app/logic.py: sanitization helpers
\* ------------------------------------------------------------------------

\* Python's None, for the helpers that return str | None
None == [found |-> FALSE, text |-> <<>>]
Some(txt) == [found |-> TRUE, text |-> txt]

\* FENCE_RE, first alternative ^```(?:json)?\s* tried at index i: the index
\* after the match, 0 when it does not match there
FenceOpenEnd(s, i) ==
    IF s[i] = FENCE /\ (i = 1 \/ s[i - 1] = NL)
      THEN SkipWs(s, IF i + 1 <= Len(s) /\ s[i + 1] = "json" THEN i + 2 ELSE i + 1)
      ELSE 0

\* FENCE_RE, second alternative \s*```$ tried at index i
FenceCloseEnd(s, i) ==
    LET k == SkipWs(s, i)
    IN  IF k <= Len(s) /\ s[k] = FENCE /\ (k = Len(s) \/ s[k + 1] = NL)
          THEN k + 1 ELSE 0

\* the index after the match of FENCE_RE that starts at i, 0 when none does
FenceMatchEnd(s, i) ==
    LET Or(open) == IF open # 0 THEN open ELSE FenceCloseEnd(s, i)
    IN  Or(FenceOpenEnd(s, i))

\* FENCE_RE.sub("", s) from index i on: the leftmost match is dropped and
\* the search goes on after it
RECURSIVE FenceSubFrom(_, _, _)
FenceSubFrom(s, i, acc) ==
    LET Drop(from) ==
            FenceSubFrom(s, FenceMatchEnd(s, from), acc \o Slice(s, i, from - 1))
        Starts(starts) ==
            IF starts = {} THEN acc \o Slice(s, i, Len(s)) ELSE Drop(SetMin(starts))
    IN  Starts({j \in i..Len(s) : FenceMatchEnd(s, j) # 0})

FENCE_RE_sub(s) == FenceSubFrom(s, 1, <<>>)

\* THINK_TAG_RE.sub("", s): a tag </?think[^>]*> is one token
ThinkTags == {"<think>", "</think>"}
IsNotThinkTag(c) == c \notin ThinkTags
THINK_TAG_RE_sub(s) == SelectSeq(s, IsNotThinkTag)

\* The scan shared by _find_balanced_json and _wrap_multiple_top_objects,
\* started at index start with depth = 0, in_str = esc = False: the index
\* of the first closer that brings depth back to 0, 0 when the text ends
\* first.  in_str after the character at j is the parity of the quotes read
\* with esc off; a bracket counts when in_str is off.
BalancedEnd(s, start, opener, closer) ==
    LET Quote(j) == s[j] = DQ /\ ~Escaped(s, start, j)
        InStr(j) == Cardinality({k \in start..j : Quote(k)}) % 2 = 1
        Depth(j) == Cardinality({k \in start..j : s[k] = opener /\ ~InStr(k)})
                      - Cardinality({k \in start..j : s[k] = closer /\ ~InStr(k)})
        First(ends) == IF ends = {} THEN 0 ELSE SetMin(ends)
    IN  First({j \in start..Len(s) : s[j] = closer /\ ~InStr(j) /\ Depth(j) = 0})

\* the while loop of _find_balanced_json for one opener, from candidate start
RECURSIVE FindBalancedFrom(_, _, _, _)
FindBalancedFrom(s, opener, closer, start) ==
    LET Block(e) ==
            IF e # 0 THEN Some(SubSeq(s, start, e))
            ELSE FindBalancedFrom(s, opener, closer, Find(s, opener, start + 1))
    IN  IF start = 0 THEN None ELSE Block(BalancedEnd(s, start, opener, closer))

\* _find_balanced_json: every start of an array is tried before any object
_find_balanced_json(text) ==
    LET Or(arr) ==
            IF arr.found THEN arr
            ELSE FindBalancedFrom(text, "{", "}", Find(text, "{", 1))
    IN  Or(FindBalancedFrom(text, "[", "]", Find(text, "[", 1)))

\* the while loop of _wrap_multiple_top_objects: i is the index the next
\* search starts at, objs the blocks found so far
RECURSIVE WrapCollect(_, _, _)
WrapCollect(s, i, objs) ==
    LET Block(j, k) ==
            IF k = 0 THEN objs
            ELSE WrapCollect(s, k + 1, Append(objs, SubSeq(s, j, k)))
        Start(j) == IF j = 0 THEN objs ELSE Block(j, BalancedEnd(s, j, "{", "}"))
    IN  Start(Find(s, "{", i))

\* ",".join(objs)
RECURSIVE JoinComma(_)
JoinComma(objs) ==
    IF Len(objs) = 0 THEN <<>>
    ELSE IF Len(objs) = 1 THEN objs[1]
    ELSE objs[1] \o <<",">> \o JoinComma(Tail(objs))

_wrap_multiple_top_objects(text) ==
    LET Wrap(objs) ==
            IF Len(objs) >= 2 THEN Some(<<"[">> \o JoinComma(objs) \o <<"]">>)
            ELSE None
    IN  Wrap(WrapCollect(Strip(text), 1, <<>>))

\* re.sub(r"(?<!\\)'", '"', text)
SoftQuotes(text) ==
    [i \in 1..Len(text) |->
        IF text[i] = SQ /\ ~(i > 1 /\ text[i - 1] = BS) THEN DQ ELSE text[i]]

\* sanitize_model_json that gives up with the quote-replaced text
sanitize_model_json_returns_soft(raw) ==
    LET Soft(text, soft) == IF soft.found THEN soft.text ELSE SoftQuotes(text)
        Wrapped(text, wrapped) ==
            IF wrapped.found THEN wrapped.text
            ELSE Soft(text, _find_balanced_json(SoftQuotes(text)))
        Candidate(text, cand) ==
            IF cand.found THEN cand.text
            ELSE Wrapped(text, _wrap_multiple_top_objects(text))
        Text(text) ==
            IF json_loads(text).ok THEN text
            ELSE Candidate(text, _find_balanced_json(text))
    IN  Text(THINK_TAG_RE_sub(FENCE_RE_sub(Strip(raw))))

\* sanitize_model_json; the caller's None is the empty text
sanitize_model_json(raw) ==
    LET Soft(text, soft) == IF soft.found THEN soft.text ELSE text
        Wrapped(text, wrapped) ==
            IF wrapped.found THEN wrapped.text
            ELSE Soft(text, _find_balanced_json(SoftQuotes(text)))
        Candidate(text, cand) ==
            IF cand.found THEN cand.text
            ELSE Wrapped(text, _wrap_multiple_top_objects(text))
        Text(text) ==
            IF json_loads(text).ok THEN text
            ELSE Candidate(text, _find_balanced_json(text))
    IN  Text(THINK_TAG_RE_sub(FENCE_RE_sub(Strip(raw))))


\* ------------------------------------------------------------------------
\* app/schema.py: validation of decoded JSON values (pydantic).  Only the
\* coercions both major pydantic versions share are modelled: a number, a
\* boolean or a number written in a string is a float; a string is a str.
\* ------------------------------------------------------------------------

K(name) == <<name>>

IsDict(v) == v.t = "obj"
IsList(v) == v.t = "arr"
HasKey(o, k) == k \in DOMAIN o.v

\* the number a string holds, when it is written as a JSON number
NumberOfText(toks) ==
    LET Ended(s, r) == IF r.ok /\ r.pos = Len(s) + 1 THEN r ELSE JFail
        Stripped(s) == Ended(s, ParseNumber(s, 1))
    IN  Stripped(Strip(toks))

\* float: the decimal m / 10^e
FloatOk(v) ==
    \/ v.t \in {"num", "true", "false"}
    \/ v.t = "str" /\ NumberOfText(v.v).ok

FloatOf(v) ==
    LET Decimal(n) == [m |-> n.m, e |-> n.e]
    IN  CASE v.t = "num"   -> Decimal(v)
          [] v.t = "true"  -> [m |-> 1, e |-> 0]
          [] v.t = "false" -> [m |-> 0, e |-> 0]
          [] v.t = "str"   -> Decimal(NumberOfText(v.v).val)

\* int: a number with no fractional part
Whole(f) == f.m % Pow10(f.e) = 0
Quotient(f) == f.m \div Pow10(f.e)
IntOk(v) == FloatOk(v) /\ Whole(FloatOf(v))
IntOf(v) == Quotient(FloatOf(v))

StrOk(v) == v.t = "str"

\* Optional[str] = None, as a text; None is the value of an absent currency
NoCurrency == <<"<None>">>

\* class Transaction
TransactionOk(v) ==
    /\ IsDict(v)
    /\ HasKey(v, K("date")) /\ StrOk(v.v[K("date")])
    /\ HasKey(v, K("description")) /\ StrOk(v.v[K("description")])
    /\ HasKey(v, K("amount")) /\ FloatOk(v.v[K("amount")])
    /\ HasKey(v, K("currency")) =>
          (v.v[K("currency")].t = "null" \/ StrOk(v.v[K("currency")]))
    /\ HasKey(v, K("type")) /\ StrOk(v.v[K("type")])
    /\ v.v[K("type")].v \in {K("credit"), K("debit")}

Transaction(v) ==
    [date        |-> v.v[K("date")].v,
     description |-> v.v[K("description")].v,
     amount      |-> FloatOf(v.v[K("amount")]),
     currency    |-> IF HasKey(v, K("currency")) /\ v.v[K("currency")].t = "str"
                       THEN v.v[K("currency")].v ELSE NoCurrency,
     type        |-> v.v[K("type")].v[1]]

\* class PageExtraction, built from the keyword arguments **obj
PageExtractionOk(obj) ==
    /\ HasKey(obj, K("page_index")) /\ IntOk(obj.v[K("page_index")])
    /\ HasKey(obj, K("transactions")) =>
          /\ IsList(obj.v[K("transactions")])
          /\ \A i \in 1..Len(obj.v[K("transactions")].v) :
                TransactionOk(obj.v[K("transactions")].v[i])

PageExtraction(obj) ==
    [page_index   |-> IntOf(obj.v[K("page_index")]),
     transactions |-> IF HasKey(obj, K("transactions"))
                        THEN [i \in 1..Len(obj.v[K("transactions")].v) |->
                                Transaction(obj.v[K("transactions")].v[i])]
                        ELSE <<>>]


\* ------------------------------------------------------------------------
\* app/logic.py: core pipeline logic
\* ------------------------------------------------------------------------

\* chunk_pages with a loop that stops before a last, shorter chunk
chunk_pages_full_chunks_only(pages_text, chunk_size) ==
    [c \in 1..(Len(pages_text) \div chunk_size) |->
       [k \in ((c - 1) * chunk_size)..(c * chunk_size - 1) |-> pages_text[k + 1]]]

\* chunk_pages: chunk c holds the 0-based page indices i..i+n-1 for
\* i = (c-1)*chunk_size, n = min(chunk_size, len(pages_text) - i)
chunk_pages(pages_text, chunk_size) ==
    LET n      == Len(pages_text)
        nchunk == (n + chunk_size - 1) \div chunk_size
    IN  [c \in 1..nchunk |->
           LET i == (c - 1) * chunk_size
               g == IF chunk_size < n - i THEN chunk_size ELSE n - i
           IN  [k \in i..(i + g - 1) |-> pages_text[k + 1]]]

\* the result of a call that either returns or raises
Returned(v) == [ok |-> TRUE, pages |-> v, err |-> "-"]
Raised(e)   == [ok |-> FALSE, pages |-> <<>>, err |-> e]

\* the page objects parse_llm_json iterates over, after its normalisation:
\* {"pages": [...]} is unwrapped, any other dict becomes a one-element list
NormalisedData(data) ==
    IF IsDict(data) /\ HasKey(data, K("pages")) /\ IsList(data.v[K("pages")])
      THEN data.v[K("pages")]
    ELSE IF IsDict(data) THEN [t |-> "arr", v |-> <<data>>]
    ELSE data

\* a page object with the synthesized page_index = -1
WithPageIndex(obj) ==
    IF ~HasKey(obj, K("page_index")) /\ HasKey(obj, K("transactions"))
         /\ IsList(obj.v[K("transactions")])
      THEN [obj EXCEPT !.v = Put(obj.v, K("page_index"),
                 [t |-> "num", m |-> 0 - 1, e |-> 0, frac |-> FALSE])]
      ELSE obj

\* the for loop of parse_llm_json from element i on, pages being the list
\* built so far: a non-dict element makes `in` or ** raise TypeError
RECURSIVE ParsePages(_, _, _)
ParsePages(items, i, pages) ==
    IF i > Len(items) THEN Returned(pages)
    ELSE IF ~IsDict(items[i]) THEN Raised("TypeError")
    ELSE IF ~PageExtractionOk(WithPageIndex(items[i])) THEN Raised("ValidationError")
    ELSE ParsePages(items, i + 1, Append(pages, PageExtraction(WithPageIndex(items[i]))))

\* parse_llm_json: a decoded string is iterated character by character, so
\* only the empty string passes; a number, boolean or null is not iterable
parse_llm_json(raw) ==
    LET Pages(data) ==
            IF IsList(data) THEN ParsePages(data.v, 1, <<>>)
            ELSE IF data.t = "str" /\ data.v = <<>> THEN Returned(<<>>)
            ELSE Raised("TypeError")
        Decoded(dec) ==
            IF ~dec.ok THEN Raised("JSONDecodeError")
            ELSE Pages(NormalisedData(dec.val))
    IN  Decoded(json_loads(sanitize_model_json(raw)))

\* a + b of two decimals m / 10^e
DecAdd(a, b) ==
    LET e == IF a.e > b.e THEN a.e ELSE b.e
    IN  [m |-> a.m * Pow10(e - a.e) + b.m * Pow10(e - b.e), e |-> e]

\* round(x, 2) in hundredths; a tie goes to the even hundredth
Round2(x) ==
    IF x.e <= 2 THEN x.m * Pow10(2 - x.e)
    ELSE LET d   == Pow10(x.e - 2)
             q   == x.m \div d
             r   == x.m % d
         IN  IF 2 * r > d \/ (2 * r = d /\ q % 2 = 1) THEN q + 1 ELSE q

\* the flattened transaction list of aggregate
RECURSIVE FlattenTxs(_)
FlattenTxs(pages) ==
    IF pages = <<>> THEN <<>>
    ELSE Head(pages).transactions \o FlattenTxs(Tail(pages))

\* sum(t.amount for t in txs if t.type == "credit")
RECURSIVE SumCredits(_)
SumCredits(txs) ==
    IF txs = <<>> THEN [m |-> 0, e |-> 0]
    ELSE IF Head(txs).type = "credit"
      THEN DecAdd(Head(txs).amount, SumCredits(Tail(txs)))
      ELSE SumCredits(Tail(txs))

\* next((t.currency for t in txs if t.currency), None)
CurrencyGuess(txs) ==
    LET has == {i \in 1..Len(txs) : txs[i].currency \notin {NoCurrency, <<>>}}
    IN  IF has = {} THEN NoCurrency ELSE txs[SetMin(has)].currency

\* aggregate that sums the amounts of all transactions, debits included
aggregate_sums_all_types(pages) ==
    LET txs == FlattenTxs(pages)
        all == [i \in 1..Len(txs) |-> [txs[i] EXCEPT !.type = "credit"]]
    IN  [total_credits  |-> Round2(SumCredits(all)),
         total_income   |-> Round2(SumCredits(all)),
         currency_guess |-> CurrencyGuess(txs),
         transactions   |-> txs]

\* aggregate: total_credits and total_income in hundredths
aggregate(pages) ==
    LET txs == FlattenTxs(pages)
    IN  [total_credits  |-> Round2(SumCredits(txs)),
         total_income   |-> Round2(SumCredits(txs)),
         currency_guess |-> CurrencyGuess(txs),
         transactions   |-> txs]

\* Counter(...).most_common(1): the most frequent total, the first seen
\* among equals; order is the insertion order of the reports' keys
MajorityTotal(reports, order) ==
    LET cnt(i) == Cardinality({j \in 1..Len(order) :
                     reports[order[j]].total_credits = reports[order[i]].total_credits})
        best   == SetMin({i \in 1..Len(order) :
                     \A j \in 1..Len(order) : cnt(i) >= cnt(j)})
    IN  reports[order[best]].total_credits

\* compare_models that agrees only below one unit of spread
compare_models_strictly_below(reports, order) ==
    LET totals == [m \in DOMAIN reports |-> reports[m].total_credits]
        values == {totals[m] : m \in DOMAIN totals}
    IN  IF values = {} THEN [agreement |-> FALSE, reason |-> "no valid reports"]
        ELSE [agreement |-> (SetMax(values) - SetMin(values)) < 100,
              range |-> [min |-> SetMin(values), max |-> SetMax(values),
                         spread |-> SetMax(values) - SetMin(values)],
              majority_total_credits |-> MajorityTotal(reports, order),
              votes |-> [v \in values |->
                           Cardinality({m \in DOMAIN totals : totals[m] = v})],
              per_model_totals |-> totals]

\* compare_models that measures the spread from the first report's total
compare_models_spread_from_first(reports, order) ==
    LET totals == [m \in DOMAIN reports |-> reports[m].total_credits]
        values == {totals[m] : m \in DOMAIN totals}
    IN  IF values = {} THEN [agreement |-> FALSE, reason |-> "no valid reports"]
        ELSE [agreement |-> (SetMax(values) - totals[order[1]]) <= 100,
              range |-> [min |-> SetMin(values), max |-> SetMax(values),
                         spread |-> SetMax(values) - totals[order[1]]],
              majority_total_credits |-> MajorityTotal(reports, order),
              votes |-> [v \in values |->
                           Cardinality({m \in DOMAIN totals : totals[m] = v})],
              per_model_totals |-> totals]

\* compare_models; amounts in hundredths, so 1.0 is 100
compare_models(reports, order) ==
    LET totals == [m \in DOMAIN reports |-> reports[m].total_credits]
        values == {totals[m] : m \in DOMAIN totals}
    IN  IF values = {} THEN [agreement |-> FALSE, reason |-> "no valid reports"]
        ELSE [agreement |-> (SetMax(values) - SetMin(values)) <= 100,
              range |-> [min |-> SetMin(values), max |-> SetMax(values),
                         spread |-> SetMax(values) - SetMin(values)],
              majority_total_credits |-> MajorityTotal(reports, order),
              votes |-> [v \in values |->
                           Cardinality({m \in DOMAIN totals : totals[m] = v})],
              per_model_totals |-> totals]


\* ------------------------------------------------------------------------
\* Inputs of one run: the uploaded document as get_pages_text reads it, the
\* form fields, and what the model endpoint answers.
\* ------------------------------------------------------------------------

\* longest document, in pages
MaxPages == 2
\* most initial model calls of one job: len(use_models) * len(chunks)
MaxCalls == 3

\* Form(default=2, ge=1, le=5)
MinPagesPerChunk == 1
MaxPagesPerChunk == 5

\* the last steps of the history the result's meta carries
HistoryTail == 12

\* app/config.py
MODELS == <<"mistral:7b-instruct">>

\* what get_pages_text does: it returns the page texts, or raises ValueError
\* (a protected PDF without its password) or another error (a broken file).
\* The documents read have up to MaxPages pages: none with text, all with
\* text, or all but the first with text.  A page without text (a scanned
\* page without OCR) is the empty string.
Documents ==
    {[pages |-> [i \in 1..n |-> IF i <= blank THEN "" ELSE "text"], exc |-> "-"] :
        n \in 0..MaxPages, blank \in {0, 1, MaxPages}}
      \cup {[pages |-> <<>>, exc |-> e] : e \in {"ValueError", "PdfReadError"}}

\* the `models` form field after split(",") and strip(); the empty list is
\* the field left empty
ModelFields ==
    {<<>>, <<"m1", "m2">>, <<"m1", "m2", "m3">>, <<"m1", "m1">>}

\* answers of a model: pages with one credit, no page, prose with an
\* unfinished array
RespPage ==
    <<"[", "{", DQ, "page_index", DQ, ":", "0", ",",
      DQ, "transactions", DQ, ":", "[", "{",
      DQ, "date", DQ, ":", DQ, "d", DQ, ",",
      DQ, "description", DQ, ":", DQ, "x", DQ, ",",
      DQ, "amount", DQ, ":", "5", ",",
      DQ, "type", DQ, ":", DQ, "credit", DQ, "}", "]", "}", "]">>
RespEmpty == <<"[", "]">>
RespProse == <<"I think the answer is", SP, "[", "1", ",", "2">>

Responses == {RespPage, RespEmpty, RespProse}

\* errors a call raises (network, HTTP status, a payload that is no JSON)
CallErrors == {[type |-> "ConnectError", msg |-> <<"refused">>]}

\* exception classes that are ValueError or subclasses of it
ValueErrors == {"ValueError", "JSONDecodeError", "ValidationError"}


\* ------------------------------------------------------------------------
\* State
\* ------------------------------------------------------------------------

VARIABLES
    pc,               \* where the handler analyze_pdf_multi is
    use_models,       \* the configured model list
    chunks,           \* chunk_pages(pages_text, pages_per_chunk)
    job_id,           \* the job's key in PROGRESS
    idx,              \* the chunk loop's idx (1-based), 0 before the loop
    mi,               \* the position in use_models of the validation loop
    net,              \* every model call issued so far, in issue order
    raw_by_model,     \* what extract_page_chunk_multi returned for chunk idx
    per_model_raw,    \* model -> the raw texts kept, one per chunk
    PROGRESS,         \* the process-wide progress store
    by_model_report,  \* model -> FinalReport
    errors,           \* model -> the error types recorded, in order
    comparison,       \* compare_models(by_model_report)
    response,         \* what the handler answered
    probe             \* a direct call of one function of app/logic.py

vars == <<pc, use_models, chunks, job_id, idx, mi, net, raw_by_model,
          per_model_raw, PROGRESS, by_model_report, errors, comparison,
          response, probe>>

Range(f) == {f[x] : x \in DOMAIN f}

\* ------------------------------------------------------------------------
\* app/main.py: progress store
\* ------------------------------------------------------------------------

Step(s, i, m, e) == [step |-> s, chunk |-> i, model |-> m, exc |-> e]

\* _init_progress; a duration is counted in chunks, a time stamp is "set"
_init_progress(P, job, total_chunks, models) ==
    Put(P, job,
        [chunks_total |-> total_chunks,
         chunks_done  |-> 0,
         models       |-> models,
         last_step    |-> Step("started", 0, "", ""),
         per_model_ms |-> [m \in Range(models) |-> 0],
         history      |-> <<>>,
         error        |-> "None",
         started_at   |-> TRUE,
         finished_at  |-> FALSE])

\* _bump_progress(job_id, step=...)
_bump_progress(P, job, step) ==
    IF job \notin DOMAIN P THEN P
    ELSE [P EXCEPT ![job].history = Append(@, step), ![job].last_step = step]

\* _bump_progress(job_id, per_model_durations={m: per_model for m in models})
BumpDurations(P, job, models) ==
    IF job \notin DOMAIN P THEN P
    ELSE [P EXCEPT ![job].per_model_ms =
            [m \in DOMAIN @ \cup Range(models) |->
               (IF m \in DOMAIN @ THEN @[m] ELSE 0)
                 + (IF m \in Range(models) THEN 1 ELSE 0)]]

\* _finish_progress
_finish_progress(P, job) ==
    IF job \notin DOMAIN P THEN P ELSE [P EXCEPT ![job].finished_at = TRUE]

\* history[-12:]
LastSteps(h) == IF Len(h) <= HistoryTail THEN h ELSE SubSeq(h, Len(h) - HistoryTail + 1, Len(h))

\* ------------------------------------------------------------------------
\* app/llm.py: the calls
\* ------------------------------------------------------------------------

\* a call on the wire: kind "call" (chat_ollama_model) or "repair"
\* (chat_ollama_model_retry_json) of the model at position pos for a chunk;
\* prompt is the chunk build_prompt formats, prev the previous output a
\* repair carries; st is pending, returned (text) or raised (exc)
Call(kind, c, pos, m, chunk, prev) ==
    [kind |-> kind, chunk |-> c, pos |-> pos, model |-> m, prompt |-> chunk,
     prev |-> prev, st |-> "pending", text |-> <<>>,
     exc |-> [type |-> "-", msg |-> <<>>]]

\* f'{{"error":"{type(res).__name__}: {str(res)}"}}'
ErrorMarker(exc) ==
    <<"{", DQ, "error", DQ, ":", DQ, exc.type, ":", SP>> \o exc.msg \o <<DQ, "}">>

\* the initial calls of chunk c, in the order of the model list: the tasks
\* asyncio.gather awaits
Tasks(c) ==
    LET at(pos) == CHOOSE n \in 1..Len(net) :
                     net[n].kind = "call" /\ net[n].chunk = c /\ net[n].pos = pos
    IN  [pos \in 1..Len(use_models) |-> net[at(pos)]]

\* extract_page_chunk_multi with a gather that lets the first exception
\* through: the except branch marks every model
extract_page_chunk_multi_one_fails_all(models, results) ==
    [m \in Range(models) |->
       LET last == SetMax({i \in 1..Len(models) : models[i] = m})
           bad  == {i \in 1..Len(models) : results[i].st = "raised"}
       IN  IF bad # {} THEN ErrorMarker(results[SetMin(bad)].exc)
           ELSE results[last].text]

\* extract_page_chunk_multi that leaves a model whose call raised out of
\* the mapping
extract_page_chunk_multi_skips_failed(models, results) ==
    [m \in {models[i] : i \in {j \in 1..Len(models) : results[j].st # "raised"}} |->
       results[SetMax({i \in 1..Len(models) :
                         models[i] = m /\ results[i].st # "raised"})].text]

\* extract_page_chunk_multi after the gather: the loop over zip(models,
\* results) writes out[m] once per position, a later position of the same
\* name over an earlier one
extract_page_chunk_multi(models, results) ==
    [m \in Range(models) |->
       LET last == SetMax({i \in 1..Len(models) : models[i] = m})
       IN  IF results[last].st = "raised" THEN ErrorMarker(results[last].exc)
           ELSE results[last].text]


\* ------------------------------------------------------------------------
\* app/main.py: analyze_pdf_multi
\* ------------------------------------------------------------------------

\* every text the handler can hand to parse_llm_json, and what the parser
\* makes of each: parse_llm_json is a pure function, so its results are
\* computed once per text
RawTexts == Responses \cup {ErrorMarker(e) : e \in CallErrors} \cup {<<>>}

ParsedTexts == {[raw |-> raw, res |-> parse_llm_json(raw)] : raw \in RawTexts}

Parsed(raw) == (CHOOSE p \in ParsedTexts : p.raw = raw).res

NoResponse == [status |-> 0]

\* no function is called directly
NoProbe == [op |-> "-"]

\* the handler's except clauses: ValueError -> 400, any other Exception
\* (HTTPException is one) -> 500
HandlerCatches(exc) ==
    [status |-> IF exc \in ValueErrors THEN 400 ELSE 500, detail |-> exc]

\* any(pages_text)
AnyText(pages_text) == \E i \in 1..Len(pages_text) : pages_text[i] # ""

\* the handler before a request
HandlerInit ==
    /\ pc = "idle"
    /\ use_models = <<>>
    /\ chunks = <<>>
    /\ job_id = "-"
    /\ idx = 0
    /\ mi = 0
    /\ net = <<>>
    /\ raw_by_model = <<>>
    /\ per_model_raw = <<>>
    /\ PROGRESS = <<>>
    /\ by_model_report = <<>>
    /\ errors = <<>>
    /\ comparison = <<>>
    /\ response = NoResponse

Init == HandlerInit /\ probe = NoProbe

\* lines 97-112: the request up to the chunk loop.  get_pages_text raising,
\* and the HTTPException(422) raised for a document without text, end in
\* the handler's except clauses.
AnalyzeStart ==
    /\ pc = "idle"
    /\ \E doc \in Documents, pages_per_chunk \in MinPagesPerChunk..MaxPagesPerChunk,
          models \in ModelFields :
         LET um  == IF models = <<>> THEN MODELS ELSE models
             cks == chunk_pages(doc.pages, pages_per_chunk)
         IN  IF doc.exc # "-" \/ ~AnyText(doc.pages)
               THEN /\ pc' = "failed"
                    /\ response' = HandlerCatches(IF doc.exc # "-" THEN doc.exc
                                                   ELSE "HTTPException")
                    /\ UNCHANGED <<use_models, chunks, job_id, PROGRESS, per_model_raw>>
               ELSE /\ Len(um) * Len(cks) <= MaxCalls
                    /\ pc' = "loop"
                    /\ use_models' = um
                    /\ chunks' = cks
                    /\ job_id' = "job-1"
                    /\ PROGRESS' = _bump_progress(
                                     _init_progress(PROGRESS, "job-1", Len(cks), um),
                                     "job-1", Step("Prepared chunk(s)", Len(cks), "", ""))
                    /\ per_model_raw' = [m \in Range(um) |-> <<>>]
                    /\ UNCHANGED response
    /\ UNCHANGED <<idx, mi, net, raw_by_model, by_model_report, errors, comparison>>
    /\ UNCHANGED probe

\* the chunk loop turned into one gather over all chunks: the calls of
\* every remaining chunk are started at once
ChunkBeginAllChunks ==
    /\ pc = "loop"
    /\ idx < Len(chunks)
    /\ idx' = idx + 1
    /\ PROGRESS' = _bump_progress(PROGRESS, job_id,
                                  Step("Chunk: sending to models", idx + 1, "", ""))
    /\ net' = net \o [k \in 1..(Len(use_models) * (Len(chunks) - idx)) |->
                        Call("call", idx + 1 + ((k - 1) \div Len(use_models)),
                             ((k - 1) % Len(use_models)) + 1,
                             use_models[((k - 1) % Len(use_models)) + 1],
                             chunks[idx + 1 + ((k - 1) \div Len(use_models))], <<>>)]
    /\ pc' = "fanout"
    /\ UNCHANGED <<use_models, chunks, job_id, mi, raw_by_model, per_model_raw,
                   by_model_report, errors, comparison, response, probe>>

\* lines 115-118: the next chunk; extract_page_chunk_multi starts one
\* chat_ollama_model task per position of the model list and awaits them
ChunkBegin ==
    /\ pc = "loop"
    /\ idx < Len(chunks)
    /\ idx' = idx + 1
    /\ PROGRESS' = _bump_progress(PROGRESS, job_id,
                                  Step("Chunk: sending to models", idx + 1, "", ""))
    /\ net' = net \o [pos \in 1..Len(use_models) |->
                        Call("call", idx + 1, pos, use_models[pos], chunks[idx + 1], <<>>)]
    /\ pc' = "fanout"
    /\ UNCHANGED <<use_models, chunks, job_id, mi, raw_by_model, per_model_raw,
                   by_model_report, errors, comparison, response>>
    /\ UNCHANGED probe

\* a pending call of the fan-out returns a text
CallReturns ==
    /\ pc = "fanout"
    /\ \E n \in 1..Len(net), txt \in Responses :
         /\ net[n].st = "pending"
         /\ net' = [net EXCEPT ![n].st = "returned", ![n].text = txt]
    /\ UNCHANGED <<pc, use_models, chunks, job_id, idx, mi, raw_by_model,
                   per_model_raw, PROGRESS, by_model_report, errors, comparison,
                   response>>
    /\ UNCHANGED probe

\* a pending call of the fan-out raises
CallRaises ==
    /\ pc = "fanout"
    /\ \E n \in 1..Len(net), e \in CallErrors :
         /\ net[n].st = "pending"
         /\ net' = [net EXCEPT ![n].st = "raised", ![n].exc = e]
    /\ UNCHANGED <<pc, use_models, chunks, job_id, idx, mi, raw_by_model,
                   per_model_raw, PROGRESS, by_model_report, errors, comparison,
                   response>>
    /\ UNCHANGED probe

\* the fan-out returning with the first completed task (a wait for
\* FIRST_COMPLETED instead of the gather): the calls still pending count as
\* empty texts
FanoutJoinFirstCompleted ==
    /\ pc = "fanout"
    /\ \E n \in 1..Len(net) : net[n].chunk = idx /\ net[n].st # "pending"
    /\ raw_by_model' = extract_page_chunk_multi(use_models, Tasks(idx))
    /\ mi' = 1
    /\ pc' = "validate"
    /\ UNCHANGED <<use_models, chunks, job_id, idx, net, per_model_raw, PROGRESS,
                   by_model_report, errors, comparison, response, probe>>

\* lines 118-122: the gather is complete and extract_page_chunk_multi
\* returns its dict
FanoutJoin ==
    /\ pc = "fanout"
    /\ \A n \in 1..Len(net) : net[n].st # "pending"
    /\ raw_by_model' = extract_page_chunk_multi(use_models, Tasks(idx))
    /\ mi' = 1
    /\ pc' = "validate"
    /\ UNCHANGED <<use_models, chunks, job_id, idx, net, per_model_raw, PROGRESS,
                   by_model_report, errors, comparison, response>>
    /\ UNCHANGED probe

\* raw_by_model.get(m, "")
RawOf(m) == IF m \in DOMAIN raw_by_model THEN raw_by_model[m] ELSE <<>>

\* the repair started as a task nobody awaits: the loop keeps the rejected
\* text and goes on to the next model
ValidateModelRepairNotAwaited ==
    /\ pc = "validate"
    /\ mi <= Len(use_models)
    /\ per_model_raw' = [per_model_raw EXCEPT ![use_models[mi]] =
                            Append(@, RawOf(use_models[mi]))]
    /\ mi' = mi + 1
    /\ net' = IF Parsed(RawOf(use_models[mi])).ok THEN net
              ELSE Append(net, Call("repair", idx, mi, use_models[mi], chunks[idx],
                                    RawOf(use_models[mi])))
    /\ UNCHANGED <<pc, use_models, chunks, job_id, idx, raw_by_model, PROGRESS,
                   by_model_report, errors, comparison, response, probe>>

\* lines 125-133, 142: the model at position mi; a raw text the parser
\* accepts is kept, one it rejects starts the repair call
ValidateModel ==
    /\ pc = "validate"
    /\ mi <= Len(use_models)
    /\ LET m == use_models[mi]
       IN  IF Parsed(RawOf(m)).ok
             THEN /\ per_model_raw' = [per_model_raw EXCEPT ![m] = Append(@, RawOf(m))]
                  /\ mi' = mi + 1
                  /\ UNCHANGED <<pc, net>>
             ELSE /\ net' = Append(net, Call("repair", idx, mi, m, chunks[idx], RawOf(m)))
                  /\ pc' = "repair"
                  /\ UNCHANGED <<per_model_raw, mi>>
    /\ UNCHANGED <<use_models, chunks, job_id, idx, raw_by_model, PROGRESS,
                   by_model_report, errors, comparison, response>>
    /\ UNCHANGED probe

\* the repaired text validated and then dropped: the rejected text is kept
StoredRawKeepsRejected(raw, rep) == raw

\* the repaired text taken over without validating it
StoredRawUnchecked(raw, rep) ==
    IF rep.st = "returned" THEN rep.text ELSE raw

\* lines 134-142 after the await: rep is the completed repair call.  The
\* repaired text replaces raw when the parser accepts it.
StoredRaw(raw, rep) ==
    IF rep.st = "returned" /\ Parsed(rep.text).ok THEN rep.text ELSE raw

RepairStep(c, m, rep) ==
    LET Of(res) ==
            IF rep.st = "returned" /\ res.ok THEN Step("repaired JSON", c, m, "")
            ELSE IF rep.st = "returned" THEN Step("repair failed", c, m, res.err)
            ELSE Step("repair failed", c, m, rep.exc.type)
    IN  Of(Parsed(rep.text))

\* a repair that failed is tried once more
RepairDoneRetries(rep) ==
    LET failed == ~(rep.st = "returned" /\ Parsed(rep.text).ok)
        first  == Cardinality({n \in 1..Len(net) :
                     net[n].kind = "repair" /\ net[n].chunk = idx /\ net[n].pos = mi}) = 1
    IN  /\ net' = IF failed /\ first
                    THEN Append([net EXCEPT ![Len(net)] = rep],
                                [rep EXCEPT !.st = "pending", !.text = <<>>,
                                            !.exc = [type |-> "-", msg |-> <<>>]])
                    ELSE [net EXCEPT ![Len(net)] = rep]
        /\ per_model_raw' =
              IF failed /\ first THEN per_model_raw
              ELSE [per_model_raw EXCEPT ![use_models[mi]] =
                      Append(@, IF failed THEN RawOf(use_models[mi]) ELSE rep.text)]
        /\ mi' = IF failed /\ first THEN mi ELSE mi + 1
        /\ pc' = IF failed /\ first THEN "repair" ELSE "validate"
        /\ UNCHANGED <<use_models, chunks, job_id, idx, raw_by_model, PROGRESS,
                       by_model_report, errors, comparison, response, probe>>

\* the handler resumes with the completed repair call
RepairDone(rep) ==
    /\ net' = [net EXCEPT ![Len(net)] = rep]
    /\ PROGRESS' = _bump_progress(PROGRESS, job_id, RepairStep(idx, use_models[mi], rep))
    /\ per_model_raw' = [per_model_raw EXCEPT ![use_models[mi]] =
                            Append(@, StoredRaw(RawOf(use_models[mi]), rep))]
    /\ mi' = mi + 1
    /\ pc' = "validate"
    /\ UNCHANGED <<use_models, chunks, job_id, idx, raw_by_model, by_model_report,
                   errors, comparison, response>>
    /\ UNCHANGED probe

\* the repair call returns a text
RepairReturns ==
    /\ pc = "repair"
    /\ \E txt \in Responses :
         RepairDone([net[Len(net)] EXCEPT !.st = "returned", !.text = txt])

\* a repair call that raises outside the handler's inner try: the
\* handler's except clause answers for the job
RepairRaisesAbortsJob ==
    /\ pc = "repair"
    /\ \E e \in CallErrors :
         /\ net' = [net EXCEPT ![Len(net)].st = "raised", ![Len(net)].exc = e]
         /\ response' = [status |-> 500, detail |-> e.type]
    /\ pc' = "failed"
    /\ UNCHANGED <<use_models, chunks, job_id, idx, mi, raw_by_model, per_model_raw,
                   PROGRESS, by_model_report, errors, comparison, probe>>

\* the repair call raises
RepairRaises ==
    /\ pc = "repair"
    /\ \E e \in CallErrors :
         RepairDone([net[Len(net)] EXCEPT !.st = "raised", !.exc = e])

\* the chunk's end counting one unit of chunks_done per model of the chunk
ChunkEndCountsModels ==
    /\ pc = "validate"
    /\ mi > Len(use_models)
    /\ PROGRESS' =
         LET P1 == BumpDurations(PROGRESS, job_id, use_models)
             P2 == [P1 EXCEPT ![job_id].chunks_done = @ + Len(use_models)]
         IN  _bump_progress(P2, job_id, Step("Chunk complete", idx, "", ""))
    /\ pc' = "loop"
    /\ UNCHANGED <<use_models, chunks, job_id, idx, mi, net, raw_by_model,
                   per_model_raw, by_model_report, errors, comparison, response,
                   probe>>

\* lines 144-151: the chunk is complete
ChunkEnd ==
    /\ pc = "validate"
    /\ mi > Len(use_models)
    /\ PROGRESS' =
         LET P1 == BumpDurations(PROGRESS, job_id, use_models)
             P2 == [P1 EXCEPT ![job_id].chunks_done = @ + 1]
         IN  _bump_progress(P2, job_id, Step("Chunk complete", idx, "", ""))
    /\ pc' = "loop"
    /\ UNCHANGED <<use_models, chunks, job_id, idx, mi, net, raw_by_model,
                   per_model_raw, by_model_report, errors, comparison, response>>
    /\ UNCHANGED probe


\* page_list after the inner loop of the final pass over one model's raws
RECURSIVE PageList(_)
PageList(raws) ==
    LET Pages(res) == IF res.ok THEN res.pages ELSE <<>>
    IN  IF raws = <<>> THEN <<>>
        ELSE Pages(Parsed(Head(raws))) \o PageList(Tail(raws))

\* the error types the inner loop records for one model's raws, in order
RECURSIVE ParseErrors(_)
ParseErrors(raws) ==
    LET Error(res) == IF res.ok THEN <<>> ELSE <<res.err>>
    IN  IF raws = <<>> THEN <<>>
        ELSE Error(Parsed(Head(raws))) \o ParseErrors(Tail(raws))

\* the final pass with one try around the whole model: a rejected raw text
\* ends the model with its error and no report
FinalModelFirstErrorEnds(m, raws, bm, er) ==
    IF ParseErrors(raws) # <<>>
      THEN [by_model |-> bm, errors |-> Put(er, m, <<ParseErrors(raws)[1]>>)]
    ELSE IF PageList(raws) = <<>>
      THEN [by_model |-> bm, errors |-> Put(er, m, <<"ValueError">>)]
    ELSE [by_model |-> Put(bm, m, aggregate(PageList(raws))), errors |-> er]

\* the final pass giving a model without pages a report of zero totals
FinalModelZeroFilled(m, raws, bm, er) ==
    [by_model |-> Put(bm, m, aggregate(PageList(raws))),
     errors   |-> IF PageList(raws) = <<>> THEN Put(er, m, <<"ValueError">>)
                  ELSE IF ParseErrors(raws) = <<>> THEN er
                  ELSE Put(er, m, (IF m \in DOMAIN er THEN er[m] ELSE <<>>)
                                    \o ParseErrors(raws))]

\* the final pass without the ValueError for an empty page list: a model
\* without pages gets no report and only the errors of its rejected texts
FinalModelNoPagesUnreported(m, raws, bm, er) ==
    [by_model |-> IF PageList(raws) = <<>> THEN bm
                  ELSE Put(bm, m, aggregate(PageList(raws))),
     errors   |-> IF ParseErrors(raws) = <<>> THEN er
                  ELSE Put(er, m, (IF m \in DOMAIN er THEN er[m] ELSE <<>>)
                                    \o ParseErrors(raws))]

\* lines 159-170: one iteration of the final pass, for model m with the raw
\* texts raws, from the mappings bm (by_model_report) and er (errors).  A
\* rejected raw adds its error to errors[m] and the loop goes on; no page
\* at all raises ValueError, which replaces errors[m].
FinalModel(m, raws, bm, er) ==
    LET Recorded(failed, page_list) ==
            IF page_list = <<>>
              THEN [by_model |-> bm, errors |-> Put(er, m, <<"ValueError">>)]
              ELSE [by_model |-> Put(bm, m, aggregate(page_list)),
                    errors   |-> IF failed = <<>> THEN er
                                 ELSE Put(er, m, (IF m \in DOMAIN er THEN er[m] ELSE <<>>)
                                                   \o failed)]
    IN  CHOOSE out \in {Recorded(failed, page_list) :
                          failed \in {ParseErrors(raws)}, page_list \in {PageList(raws)}} : TRUE

\* lines 158-170: for m in use_models, from position i on
RECURSIVE FinalLoop(_, _, _, _, _)
FinalLoop(models, i, raws, bm, er) ==
    IF i > Len(models) THEN [by_model |-> bm, errors |-> er]
    ELSE CHOOSE out \in {FinalLoop(models, i + 1, raws, r.by_model, r.errors) :
                           r \in {FinalModel(models[i], raws[models[i]], bm, er)}} : TRUE

\* the keys of by_model_report in insertion order: the models with a
\* report, in the order of their first position in the model list
ReportOrder(models, bm) ==
    LET first == {i \in 1..Len(models) :
                    models[i] \in DOMAIN bm /\ \A j \in 1..(i - 1) : models[j] # models[i]}
        IsFirst(i) == i \in first
    IN  [k \in 1..Cardinality(first) |->
           models[CHOOSE i \in first : Cardinality({j \in first : j < i}) = k - 1]]

\* lines 153-194: the final pass, the comparison, finish and the response
FinalPass ==
    /\ pc = "loop"
    /\ idx = Len(chunks)
    /\ \E fin \in {FinalLoop(use_models, 1, per_model_raw, <<>>, <<>>)} :
       \E cmp \in {compare_models(fin.by_model, ReportOrder(use_models, fin.by_model))} :
       \E P \in {_finish_progress(
                   _bump_progress(
                     _bump_progress(PROGRESS, job_id,
                                    Step("Parsing model outputs", 0, "", "")),
                     job_id, Step("Comparison complete", 0, "", "")),
                   job_id)} :
         /\ by_model_report' = fin.by_model
         /\ errors' = fin.errors
         /\ comparison' = cmp
         /\ PROGRESS' = P
         /\ response' = [status     |-> 200,
                         by_model   |-> fin.by_model,
                         errors     |-> fin.errors,
                         comparison |-> cmp,
                         meta       |-> [job_id       |-> job_id,
                                         chunks_total |-> P[job_id].chunks_total,
                                         chunks_done  |-> P[job_id].chunks_done,
                                         per_model_ms |-> P[job_id].per_model_ms,
                                         started_at   |-> P[job_id].started_at,
                                         finished_at  |-> P[job_id].finished_at,
                                         history      |-> LastSteps(P[job_id].history)]]
    /\ pc' = "done"
    /\ UNCHANGED <<use_models, chunks, job_id, idx, mi, net, raw_by_model,
                   per_model_raw>>
    /\ UNCHANGED probe

Next ==
    \/ AnalyzeStart
    \/ ChunkBegin
    \/ CallReturns
    \/ CallRaises
    \/ FanoutJoin
    \/ ValidateModel
    \/ RepairReturns
    \/ RepairRaises
    \/ ChunkEnd
    \/ FinalPass

Spec == Init /\ [][Next]_vars

\* The event loop resumes the handler whenever it can run, and every call
\* returns or raises (each has a 180 s timeout).
FairSpec == Spec /\ WF_vars(Next)


\* ------------------------------------------------------------------------
\* Direct calls of the pure functions of app/logic.py: the arguments are
\* drawn at the start, the one step is the call.
\* ------------------------------------------------------------------------

handlerVars == <<pc, use_models, chunks, job_id, idx, mi, net, raw_by_model,
                 per_model_raw, PROGRESS, by_model_report, errors, comparison,
                 response>>

\* longest page sequence handed to chunk_pages
MaxProbePages == 4
\* largest chunk_size handed to chunk_pages
MaxChunkSize == 5
\* most objects printed one after another in a text handed to the sanitizer
MaxObjects == 3

ProbeTexts == {"", "a", "b"}

RECURSIVE SeqsUpTo(_, _)
SeqsUpTo(S, n) ==
    IF n = 0 THEN {<<>>}
    ELSE SeqsUpTo(S, n - 1)
           \cup {Append(q, x) : q \in {r \in SeqsUpTo(S, n - 1) : Len(r) = n - 1}, x \in S}

ChunkInit ==
    /\ HandlerInit
    /\ probe \in {[op |-> "chunk_pages", pages_text |-> t, chunk_size |-> k,
                    returned |-> FALSE, ret |-> <<>>] :
                      t \in SeqsUpTo(ProbeTexts, MaxProbePages), k \in 1..MaxChunkSize}

\* chunk_pages(pages_text, chunk_size) returns
ChunkPagesCall ==
    /\ probe.op = "chunk_pages"
    /\ ~probe.returned
    /\ probe' = [probe EXCEPT !.returned = TRUE,
                               !.ret = chunk_pages(probe.pages_text, probe.chunk_size)]
    /\ UNCHANGED handlerVars

ChunkNext == ChunkPagesCall

ChunkSpec == ChunkInit /\ [][ChunkNext]_vars

\* JSON objects a model prints: two plain ones and one with a brace in a string
ObjA == <<"{", DQ, "a", DQ, ":", "1", "}">>
ObjB == <<"{", DQ, "b", DQ, ":", "2", "}">>
ObjC == <<"{", DQ, "c", DQ, ":", DQ, "}", DQ, "}">>
Objects == {ObjA, ObjB, ObjC}

\* what stands between two objects printed one after another
Separators == {<<>>, <<NL>>, <<SP>>}

\* sep.join(blocks)
RECURSIVE JoinWith(_, _)
JoinWith(blocks, sep) ==
    IF Len(blocks) = 0 THEN <<>>
    ELSE IF Len(blocks) = 1 THEN blocks[1]
    ELSE blocks[1] \o sep \o JoinWith(Tail(blocks), sep)

\* what a JSON string holds between its quotes: a letter, a code fence
\* marker (alone, before "json", after an escaped newline), think tags, a
\* closing bracket
StringBodies ==
    {<<"a">>, <<FENCE>>, <<FENCE, "json">>, <<BS, "n", FENCE>>, <<"<think>">>,
     <<"a", "<think>", "b", "</think>">>, <<"]">>}

Quoted(body) == <<DQ>> \o body \o <<DQ>>

\* texts that are valid JSON as they stand: a string, an array or an object
\* holding it, bare or between blank lines, and an array over several lines
ValidJsonTexts ==
    UNION {{Quoted(b),
            <<"[">> \o Quoted(b) \o <<"]">>,
            <<"{", DQ, "k", DQ, ":">> \o Quoted(b) \o <<"}">>,
            <<NL, SP, "[">> \o Quoted(b) \o <<"]", SP, NL>>,
            <<"[", NL>> \o Quoted(b) \o <<",", "1", NL, "]">>} : b \in StringBodies}
      \cup {<<"1">>, <<"[", "]">>, <<SP, "{", "}", NL>>}

\* texts that hold no JSON value: prose, unfinished brackets, a closer
\* before its opener, quotes; bare, inside a fence, after a think trace
ProseTexts ==
    LET bare == {<<>>, <<"oops">>, <<"[", "1">>, <<"{", DQ, "a", DQ>>,
                 <<"]", "[">>, <<SQ, "a", SQ>>, <<"[", DQ, "]">>, <<"a", NL, "b">>}
    IN  bare
          \cup {<<SP>> \o t \o <<NL>> : t \in bare}
          \cup {<<FENCE, "json", NL>> \o t \o <<NL, FENCE>> : t \in bare}
          \cup {<<"<think>", "hmm", "</think>">> \o t : t \in bare}

\* texts that are not JSON but hold a balanced value: prose around an
\* array, an object, an object holding an array, an object before an array,
\* an array before an object, brackets inside strings, single quotes
EmbeddedTexts ==
    LET arr    == <<"[", "1", "]">>
        nested == <<"{", DQ, "a", DQ, ":", "[", "1", "]", "}">>
        body   == {arr, ObjA, ObjC, nested,
                   ObjA \o <<SP>> \o arr, arr \o <<SP>> \o ObjA,
                   <<"[", DQ, "]", DQ, "]">>, <<"[", "1">> \o <<SP>> \o arr,
                   <<"{", DQ, "a", DQ>> \o <<SP>> \o ObjB,
                   <<"[", DQ, SP, SQ, SP, "]">>,
                   <<"{", SQ, "a", SQ, ":", "1", "}">>}
    IN  {<<"Sure", ":", SP>> \o t : t \in body}
          \cup {t \o <<SP, "done">> : t \in body}
          \cup {<<FENCE, "json", NL, "x", SP>> \o t \o <<NL, FENCE>> : t \in body}

SanitizeInit ==
    /\ HandlerInit
    /\ probe \in {[op |-> "sanitize_model_json", blocks |-> b, sep |-> sep,
                    raw |-> JoinWith(b, sep), returned |-> FALSE, ret |-> <<>>] :
                      b \in SeqsUpTo(Objects, MaxObjects) \ {<<>>}, sep \in Separators}
                 \cup {[op |-> "sanitize_model_json", blocks |-> <<>>, sep |-> <<>>,
                        raw |-> t, returned |-> FALSE, ret |-> <<>>] :
                          t \in ValidJsonTexts \cup ProseTexts \cup EmbeddedTexts}

\* sanitize_model_json(raw) returns
SanitizeCall ==
    /\ probe.op = "sanitize_model_json"
    /\ ~probe.returned
    /\ probe' = [probe EXCEPT !.returned = TRUE, !.ret = sanitize_model_json(probe.raw)]
    /\ UNCHANGED handlerVars

SanitizeNext == SanitizeCall

SanitizeSpec == SanitizeInit /\ [][SanitizeNext]_vars

\* most reports handed to compare_models
MaxReports == 3

\* names of the models whose reports are compared
ModelPool == <<"A", "B", "C", "D">>

\* totals of the compared reports, in hundredths: 1000.00, 1000.40,
\* 1000.50, 999.80, 1001.00, 1001.01
ProbeTotals == {100000, 100040, 100050, 99980, 100100, 100101}

\* a credit of t hundredths
CreditOf(t) ==
    [date |-> <<"d">>, description |-> <<"x">>, amount |-> [m |-> t, e |-> 2],
     currency |-> NoCurrency, type |-> "credit"]

\* the report aggregate builds for one page with one credit of t hundredths
ReportOf(t) == aggregate(<<[page_index |-> 0, transactions |-> <<CreditOf(t)>>]>>)

\* the key orders of the compared mapping: the first n names, as listed or
\* reversed
ReportOrders ==
    UNION {{[i \in 1..n |-> ModelPool[i]], [i \in 1..n |-> ModelPool[n + 1 - i]]} :
             n \in 0..MaxReports}

CompareInit ==
    /\ HandlerInit
    /\ probe \in {[op |-> "compare_models", order |-> o,
                    reports |-> [m \in Range(o) |-> ReportOf(t[m])],
                    returned |-> FALSE, ret |-> <<>>] :
                      o \in ReportOrders, t \in [Range(ModelPool) -> ProbeTotals]}

\* compare_models(reports) returns
CompareCall ==
    /\ probe.op = "compare_models"
    /\ ~probe.returned
    /\ probe' = [probe EXCEPT !.returned = TRUE,
                               !.ret = compare_models(probe.reports, probe.order)]
    /\ UNCHANGED handlerVars

CompareNext == CompareCall

CompareSpec == CompareInit /\ [][CompareNext]_vars

\* most transactions of the pages handed to aggregate
MaxTxs == 3

\* transactions of a page: credits of 100, 58.5, 0.125, 0.25 and -5, a
\* debit of 40 (the fractions are exact as floats, so the sums are)
ProbeTxs ==
    {[date |-> <<"d">>, description |-> <<"x">>, amount |-> a.amount,
      currency |-> NoCurrency, type |-> a.type] :
        a \in {[amount |-> [m |-> 100, e |-> 0], type |-> "credit"],
               [amount |-> [m |-> 585, e |-> 1], type |-> "credit"],
               [amount |-> [m |-> 125, e |-> 3], type |-> "credit"],
               [amount |-> [m |-> 25, e |-> 2], type |-> "credit"],
               [amount |-> [m |-> 0 - 5, e |-> 0], type |-> "credit"],
               [amount |-> [m |-> 40, e |-> 0], type |-> "debit"]}}

\* the ways the transactions txs lie on pages: all on one page, one page
\* each, or an empty page before the one page
PageLayouts(txs) ==
    {<<[page_index |-> 0, transactions |-> txs]>>,
     [i \in 1..Len(txs) |-> [page_index |-> i - 1, transactions |-> <<txs[i]>>]],
     <<[page_index |-> 0, transactions |-> <<>>],
       [page_index |-> 1, transactions |-> txs]>>}

AggregateInit ==
    /\ HandlerInit
    /\ probe \in {[op |-> "aggregate", pages |-> pages, returned |-> FALSE,
                    ret |-> <<>>] :
                      pages \in UNION {PageLayouts(txs) : txs \in SeqsUpTo(ProbeTxs, MaxTxs)}}

\* aggregate(pages) returns
AggregateCall ==
    /\ probe.op = "aggregate"
    /\ ~probe.returned
    /\ probe' = [probe EXCEPT !.returned = TRUE, !.ret = aggregate(probe.pages)]
    /\ UNCHANGED handlerVars

AggregateNext == AggregateCall

AggregateSpec == AggregateInit /\ [][AggregateNext]_vars

\* how a model writes an amount: positive, zero, negative, with a fraction,
\* inside a string, null
AmountTexts ==
    {<<"5">>, <<"0">>, <<"-", "5">>, <<"2", ".", "5">>, <<DQ, "5", DQ>>,
     <<DQ, "-", "5", DQ>>, <<"null">>}

TypeTexts == {"credit", "debit", "other"}

\* a transaction object as a model prints it
TxText(amount, type) ==
    <<"{", DQ, "date", DQ, ":", DQ, "d", DQ, ",",
      DQ, "description", DQ, ":", DQ, "x", DQ, ",",
      DQ, "amount", DQ, ":">> \o amount
      \o <<",", DQ, "type", DQ, ":", DQ, type, DQ, "}">>

\* the answers holding the transaction tx: an array of one page, a single
\* page object, a {"pages": [...]} object, a page without page_index, a
\* page with the subtotal the prompt asks for
PageTexts(tx) ==
    LET txs   == <<DQ, "transactions", DQ, ":", "[">> \o tx \o <<"]">>
        index == <<DQ, "page_index", DQ, ":", "0", ",">>
        page  == <<"{">> \o index \o txs \o <<"}">>
    IN  {<<"[">> \o page \o <<"]">>,
         page,
         <<"{", DQ, "pages", DQ, ":", "[">> \o page \o <<"]", "}">>,
         <<"[", "{">> \o txs \o <<"}", "]">>,
         <<"[", "{">> \o index \o txs
            \o <<",", DQ, "page_credit_sum", DQ, ":", "9", "9", "}", "]">>}

ParseInit ==
    /\ HandlerInit
    /\ probe \in {[op |-> "parse_llm_json", raw |-> raw, returned |-> FALSE,
                    ret |-> Raised("-"), reported |-> FALSE,
                    report |-> aggregate(<<>>)] :
                      raw \in UNION {PageTexts(TxText(a, t)) :
                                       a \in AmountTexts, t \in TypeTexts}}

\* parse_llm_json(raw) returns its pages or raises
ParseCall ==
    /\ probe.op = "parse_llm_json"
    /\ ~probe.returned
    /\ probe' = [probe EXCEPT !.returned = TRUE, !.ret = parse_llm_json(probe.raw)]
    /\ UNCHANGED handlerVars

\* aggregate(pages) on the pages parse_llm_json returned
ParsedAggregateCall ==
    /\ probe.op = "parse_llm_json"
    /\ probe.returned /\ probe.ret.ok /\ ~probe.reported
    /\ probe' = [probe EXCEPT !.reported = TRUE, !.report = aggregate(probe.ret.pages)]
    /\ UNCHANGED handlerVars

ParseNext == ParseCall \/ ParsedAggregateCall

ParseSpec == ParseInit /\ [][ParseNext]_vars

\* ------------------------------------------------------------------------
\* app/main.py: the progress store under a poller.  analyze_pdf_multi is a
\* coroutine of the event loop; get_progress is a plain function, which the
\* framework runs on a worker thread.  No lock guards PROGRESS, so the
\* statements of the poller interleave with the statements of the handler:
\* each step below is one statement of main.py.  probe.ops is the sequence
\* of progress operations the handler performs for its job, probe.w the
\* handler's place in it, probe.r the poller.
\* ------------------------------------------------------------------------

\* most chunks of the polled job
MaxPollChunks == 2
\* most requests of the poller
MaxPolls == 2

PollJob == "job-1"

\* the job ids a poller asks for: the job's own and an unknown one
PollJobs == {PollJob, "job-x"}

PollModels == {<<"m1">>, <<"m1", "m2">>}

\* lines 117-150: the progress operations of chunk c; repaired tells whether
\* the first model's response was repaired
ChunkOps(c, repaired) ==
    <<[kind |-> "bump", step |-> Step("Chunk: sending to models", c, "", "")]>>
      \o (IF repaired
            THEN <<[kind |-> "bump", step |-> Step("repaired JSON", c, "m1", "")]>>
            ELSE <<>>)
      \o <<[kind |-> "durations", step |-> Step("", c, "", "")],
           [kind |-> "inc", step |-> Step("", c, "", "")],
           [kind |-> "bump", step |-> Step("Chunk complete", c, "", "")]>>

RECURSIVE LoopOps(_, _, _)
LoopOps(c, n, repaired) ==
    IF c > n THEN <<>>
    ELSE ChunkOps(c, c \in repaired) \o LoopOps(c + 1, n, repaired)

\* lines 107-174: the progress operations of a job of n chunks, in order
JobOps(n, repaired) ==
    <<[kind |-> "init", step |-> Step("started", n, "", "")],
      [kind |-> "bump", step |-> Step("Prepared chunk(s)", n, "", "")]>>
      \o LoopOps(1, n, repaired)
      \o <<[kind |-> "bump", step |-> Step("Parsing model outputs", 0, "", "")],
           [kind |-> "bump", step |-> Step("Comparison complete", 0, "", "")],
           [kind |-> "finish", step |-> Step("", 0, "", "")]>>

\* the handler is between two progress operations
Between == [at |-> "-", k |-> 0, tmp |-> 0]

NoPoll == [at |-> "-", job |-> "-", polls |-> 0, status |-> 0, body |-> <<>>]

PollInit ==
    /\ HandlerInit
    /\ probe \in {[op |-> "poll", models |-> ms, total |-> n,
                    ops |-> JobOps(n, repaired), i |-> 1, w |-> Between,
                    r |-> NoPoll] :
                      ms \in PollModels, n \in 1..MaxPollChunks,
                      repaired \in SUBSET (1..MaxPollChunks)}

\* the operation the handler is at
WriterAt(kind, at) ==
    /\ probe.op = "poll"
    /\ probe.i <= Len(probe.ops)
    /\ probe.ops[probe.i].kind = kind
    /\ probe.w.at = at

pollFrame == <<pc, use_models, chunks, job_id, idx, mi, net, raw_by_model,
               per_model_raw, by_model_report, errors, comparison, response>>

\* lines 45-54: PROGRESS[job_id] = {...}, one store
InitWrite ==
    /\ WriterAt("init", "-")
    /\ PROGRESS' = _init_progress(PROGRESS, PollJob, probe.total, probe.models)
    /\ probe' = [probe EXCEPT !.i = @ + 1]
    /\ UNCHANGED pollFrame

\* lines 57-59: p = PROGRESS.get(job_id)
BumpLookup ==
    /\ WriterAt("bump", "-") \/ WriterAt("durations", "-")
    /\ PollJob \in DOMAIN PROGRESS
    /\ probe' = [probe EXCEPT !.w.at = "p", !.w.k = 1]
    /\ UNCHANGED <<PROGRESS, pollFrame>>

\* lines 60-61: p["history"].append(step)
BumpAppend ==
    /\ WriterAt("bump", "p")
    /\ PROGRESS' = [PROGRESS EXCEPT ![PollJob].history = Append(@, probe.ops[probe.i].step)]
    /\ probe' = [probe EXCEPT !.w.at = "appended"]
    /\ UNCHANGED pollFrame

\* line 62: p["last_step"] = step; no durations were passed, the call returns
BumpLastStep ==
    /\ WriterAt("bump", "appended")
    /\ PROGRESS' = [PROGRESS EXCEPT ![PollJob].last_step = probe.ops[probe.i].step]
    /\ probe' = [probe EXCEPT !.w = Between, !.i = @ + 1]
    /\ UNCHANGED pollFrame

\* lines 63-65: one turn of the loop over per_model_durations, for the
\* model at position k; after the last model the call returns
BumpDuration ==
    /\ WriterAt("durations", "p")
    /\ PROGRESS' = [PROGRESS EXCEPT ![PollJob].per_model_ms[probe.models[probe.w.k]] = @ + 1]
    /\ probe' = IF probe.w.k < Len(probe.models)
                  THEN [probe EXCEPT !.w.k = @ + 1]
                  ELSE [probe EXCEPT !.w = Between, !.i = @ + 1]
    /\ UNCHANGED pollFrame

\* line 149, PROGRESS[job_id]["chunks_done"] += 1: the load
IncRead ==
    /\ WriterAt("inc", "-")
    /\ probe' = [probe EXCEPT !.w.at = "loaded", !.w.tmp = PROGRESS[PollJob].chunks_done]
    /\ UNCHANGED <<PROGRESS, pollFrame>>

\* line 149: the store
IncWrite ==
    /\ WriterAt("inc", "loaded")
    /\ PROGRESS' = [PROGRESS EXCEPT ![PollJob].chunks_done = probe.w.tmp + 1]
    /\ probe' = [probe EXCEPT !.w = Between, !.i = @ + 1]
    /\ UNCHANGED pollFrame

\* line 68: p = PROGRESS.get(job_id)
FinishLookup ==
    /\ WriterAt("finish", "-")
    /\ probe' = [probe EXCEPT !.w.at = "p"]
    /\ UNCHANGED <<PROGRESS, pollFrame>>

\* lines 69-70: p["finished_at"] = time.time()
FinishStamp ==
    /\ WriterAt("finish", "p")
    /\ PROGRESS' = _finish_progress(PROGRESS, PollJob)
    /\ probe' = [probe EXCEPT !.w = Between, !.i = @ + 1]
    /\ UNCHANGED pollFrame

\* lines 86-87 of get_progress: the membership test; an unknown job_id is
\* answered with 404
GetCheck ==
    /\ probe.op = "poll"
    /\ probe.r.at = "-"
    /\ probe.r.polls < MaxPolls
    /\ \E job \in PollJobs :
         probe' = IF job \in DOMAIN PROGRESS
                    THEN [probe EXCEPT !.r.at = "checked", !.r.job = job]
                    ELSE [probe EXCEPT !.r.job = job, !.r.polls = @ + 1,
                                       !.r.status = 404, !.r.body = <<>>]
    /\ UNCHANGED <<PROGRESS, pollFrame>>

\* line 88 of get_progress: return PROGRESS[job_id]
GetReturn ==
    /\ probe.op = "poll"
    /\ probe.r.at = "checked"
    /\ probe' = [probe EXCEPT !.r.at = "-", !.r.polls = @ + 1, !.r.status = 200,
                              !.r.body = PROGRESS[probe.r.job]]
    /\ UNCHANGED <<PROGRESS, pollFrame>>

PollNext ==
    \/ InitWrite
    \/ BumpLookup
    \/ BumpAppend
    \/ BumpLastStep
    \/ BumpDuration
    \/ IncRead
    \/ IncWrite
    \/ FinishLookup
    \/ FinishStamp
    \/ GetCheck
    \/ GetReturn

PollSpec == PollInit /\ [][PollNext]_vars

\* ------------------------------------------------------------------------
\* Properties of the pipeline.  An entry is one position p of the model
\* list for one chunk c: the validation loop runs once per entry, so a name
\* listed twice is two entries.
\* ------------------------------------------------------------------------

\* the positions of the model list that hold the name m
Positions(m) == {p \in 1..Len(use_models) : use_models[p] = m}
LastPos(m) == SetMax(Positions(m))

\* the calls of one kind issued for entry (c, p)
CallsOf(kind, c, p) ==
    {n \in 1..Len(net) : net[n].kind = kind /\ net[n].chunk = c /\ net[n].pos = p}

TheCall(kind, c, p) == net[CHOOSE n \in CallsOf(kind, c, p) : TRUE]

\* what the initial call at position p produced for chunk c: its text, or
\* the error marker of the exception it raised
OwnOutcome(c, p) ==
    IF TheCall("call", c, p).st = "raised" THEN ErrorMarker(TheCall("call", c, p).exc)
    ELSE TheCall("call", c, p).text

\* the initial response of model m for chunk c
InitialResponse(c, m) == OwnOutcome(c, LastPos(m))

\* the validation loop is through with entry (c, p)
Validated(c, p) ==
    \/ c < idx
    \/ c = idx /\ pc \in {"loop", "done"}
    \/ c = idx /\ pc \in {"validate", "repair"} /\ p < mi

\* the validation loop has decided whether entry (c, p) needs a repair
Decided(c, p) == Validated(c, p) \/ (c = idx /\ pc = "repair" /\ p = mi)

Entries == (1..Len(chunks)) \X (1..Len(use_models))

\* the text kept in per_model_raw for a validated entry
Stored(c, p) ==
    per_model_raw[use_models[p]]
      [(c - 1) * Cardinality(Positions(use_models[p]))
         + Cardinality({q \in Positions(use_models[p]) : q <= p})]

\* the repair call of entry (c, p) returned a text the parser accepts
RepairAccepted(c, p) ==
    /\ CallsOf("repair", c, p) # {}
    /\ TheCall("repair", c, p).st = "returned"
    /\ Parsed(TheCall("repair", c, p).text).ok

\* the text entry (c, p) ends with, told from the calls of its own model
EntryText(c, p) ==
    IF RepairAccepted(c, p) THEN TheCall("repair", c, p).text
    ELSE InitialResponse(c, use_models[p])

\* model m has a stored text the parser accepts with at least one page
HasPages(m) ==
    \E i \in 1..Len(per_model_raw[m]) :
       Parsed(per_model_raw[m][i]).ok /\ Parsed(per_model_raw[m][i]).pages # <<>>

\* model m has a stored text the parser rejects
HasRejected(m) ==
    \E i \in 1..Len(per_model_raw[m]) : ~Parsed(per_model_raw[m][i]).ok

C2_OneRepairPerEntry ==
    \A e \in Entries :
       /\ Cardinality(CallsOf("repair", e[1], e[2])) <= 1
       /\ Decided(e[1], e[2]) =>
            Cardinality(CallsOf("repair", e[1], e[2]))
              = IF Parsed(InitialResponse(e[1], use_models[e[2]])).ok THEN 0 ELSE 1
       /\ ~Decided(e[1], e[2]) => CallsOf("repair", e[1], e[2]) = {}
       /\ \A n \in CallsOf("repair", e[1], e[2]) :
            /\ net[n].prev = InitialResponse(e[1], use_models[e[2]])
            /\ net[n].prompt = chunks[e[1]]
            /\ net[n].model = use_models[e[2]]

\* a completed job in which one entry's repair raised, another's returned a
\* text the parser rejects, and a third entry needed no repair
C2_RepairsFailed ==
    /\ pc = "done"
    /\ \E e \in Entries : /\ CallsOf("repair", e[1], e[2]) # {}
                          /\ TheCall("repair", e[1], e[2]).st = "raised"
    /\ \E e \in Entries : /\ CallsOf("repair", e[1], e[2]) # {}
                          /\ TheCall("repair", e[1], e[2]).st = "returned"
                          /\ ~RepairAccepted(e[1], e[2])
    /\ \E e \in Entries : CallsOf("repair", e[1], e[2]) = {}

\* the job is registered in the progress store (input validation passed)
JobStarted == job_id \in DOMAIN PROGRESS

\* the job finished and the handler returned the result
JobCompleted ==
    /\ pc = "done"
    /\ response.status = 200
    /\ PROGRESS[job_id].finished_at

PartialFailureScenario ==
    /\ Len(use_models) = 3
    /\ Cardinality(Range(use_models)) = 3
    /\ \E bad \in Range(use_models) :
         \A n \in 1..Len(net) :
            IF net[n].model = bad THEN net[n].st = "raised"
            ELSE /\ net[n].st = "returned"
                 /\ Parsed(net[n].text).ok
                 /\ Parsed(net[n].text).pages # <<>>

\* C4: the comparison of a completed job is computed over exactly the
\* models with a report: per_model_totals has the keys of by_model and
\* their totals, votes, min, max and spread are taken from these totals
\* alone, and every model with a report produced a page.  With three models
\* of which one fails every call, there are 2 reports, 1 error and a
\* comparison over the 2.
C4_ConsensusOverReports ==
    pc = "done" =>
      LET reports == response.by_model
          totals  == {reports[m].total_credits : m \in DOMAIN reports}
          cmp     == response.comparison
      IN  /\ \A m \in DOMAIN reports : m \in Range(use_models) /\ HasPages(m)
          /\ reports = <<>> => cmp = [agreement |-> FALSE, reason |-> "no valid reports"]
          /\ reports # <<>> =>
               /\ DOMAIN cmp.per_model_totals = DOMAIN reports
               /\ \A m \in DOMAIN reports :
                    cmp.per_model_totals[m] = reports[m].total_credits
               /\ DOMAIN cmp.votes = totals
               /\ \A v \in totals :
                    cmp.votes[v] = Cardinality({m \in DOMAIN reports :
                                                  reports[m].total_credits = v})
               /\ cmp.range.min = SetMin(totals)
               /\ cmp.range.max = SetMax(totals)
               /\ cmp.range.spread = SetMax(totals) - SetMin(totals)
               /\ cmp.majority_total_credits \in totals
          /\ PartialFailureScenario =>
               /\ Cardinality(DOMAIN reports) = 2
               /\ Cardinality(DOMAIN response.errors) = 1
               /\ DOMAIN reports \cap DOMAIN response.errors = {}
               /\ DOMAIN cmp.per_model_totals = DOMAIN reports

\* the completed partial-failure scenario
C4_PartialFailure == pc = "done" /\ PartialFailureScenario

\* C5: the text stored for an entry is the repaired response exactly when a
\* repair call was issued and the parser accepted what it returned;
\* otherwise (initial response valid, repair rejected, repair raised) it is
\* the initial response.  A model with one entry whose initial response is
\* rejected and whose repair returns valid pages gets the report of the
\* repaired pages.
C5_StoredTextIsRepairedIffAccepted ==
    /\ \A e \in Entries :
         Validated(e[1], e[2]) =>
           /\ RepairAccepted(e[1], e[2]) =>
                Stored(e[1], e[2]) = TheCall("repair", e[1], e[2]).text
           /\ ~RepairAccepted(e[1], e[2]) =>
                Stored(e[1], e[2]) = InitialResponse(e[1], use_models[e[2]])
    /\ pc = "done" =>
         \A m \in Range(use_models) :
            (Len(per_model_raw[m]) = 1 /\ RepairAccepted(1, LastPos(m))
               /\ Parsed(TheCall("repair", 1, LastPos(m)).text).pages # <<>>) =>
              /\ m \in DOMAIN response.by_model
              /\ response.by_model[m]
                   = aggregate(Parsed(TheCall("repair", 1, LastPos(m)).text).pages)

\* a completed job in which a model answered with prose, its repair
\* returned valid pages and its report has the total of the repaired pages;
\* and another entry's repair was rejected
C5_RepairedReport ==
    /\ pc = "done"
    /\ \E m \in Range(use_models) :
         /\ Len(per_model_raw[m]) = 1
         /\ InitialResponse(1, m) = RespProse
         /\ RepairAccepted(1, LastPos(m))
         /\ m \in DOMAIN response.by_model
         /\ response.by_model[m].total_credits = 500
    /\ \E e \in Entries : CallsOf("repair", e[1], e[2]) # {} /\ ~RepairAccepted(e[1], e[2])

EntryFailed(c, p) == ~Parsed(EntryText(c, p)).ok

InternalFaults == {"PdfReadError"}

\* C7: the failure answered for a document without any text has a status
\* different from the status answered for an unexpected internal fault.
C7_UnreadableInputHasOwnStatus ==
    (pc = "failed" /\ response.detail = "HTTPException") =>
       \A e \in InternalFaults : response.status # HandlerCatches(e).status

\* C8: what extract_page_chunk_multi returned for the current chunk has
\* exactly the names of the model list as keys; each name maps to the text
\* its call returned, or to the error marker of the exception its call
\* raised, whatever the calls of the other names did.
C8_FanoutMapping ==
    pc \in {"validate", "repair"} =>
      /\ DOMAIN raw_by_model = Range(use_models)
      /\ \A m \in Range(use_models) :
           raw_by_model[m] =
             IF TheCall("call", idx, LastPos(m)).st = "raised"
               THEN ErrorMarker(TheCall("call", idx, LastPos(m)).exc)
               ELSE TheCall("call", idx, LastPos(m)).text

\* the fan-out of a chunk has just been joined with one call raised and
\* another returned
C8_PartialFanout ==
    /\ pc = "validate" /\ mi = 1
    /\ \E p, q \in 1..Len(use_models) :
         /\ use_models[p] # use_models[q]
         /\ TheCall("call", idx, p).st = "raised"
         /\ TheCall("call", idx, q).st = "returned"
         /\ raw_by_model[use_models[p]] = ErrorMarker(TheCall("call", idx, p).exc)
         /\ raw_by_model[use_models[q]] = TheCall("call", idx, q).text

\* C9: chunk_pages returns chunks whose page indices, taken in chunk order,
\* are 0..n-1 once each and in order; every chunk is non-empty, holds at
\* most chunk_size consecutive pages and maps each index to that page's
\* text.
C9_ChunksPartitionPages ==
    (probe.op = "chunk_pages" /\ probe.returned) =>
      LET n  == Len(probe.pages_text)
          cs == probe.ret
      IN  /\ \A c \in 1..Len(cs) :
               /\ DOMAIN cs[c] # {}
               /\ Cardinality(DOMAIN cs[c]) <= probe.chunk_size
               /\ DOMAIN cs[c] = SetMin(DOMAIN cs[c])..SetMax(DOMAIN cs[c])
               /\ \A i \in DOMAIN cs[c] : cs[c][i] = probe.pages_text[i + 1]
          /\ UNION {DOMAIN cs[c] : c \in 1..Len(cs)} = 0..(n - 1)
          /\ n > 0 => SetMin(DOMAIN cs[1]) = 0 /\ SetMax(DOMAIN cs[Len(cs)]) = n - 1
          /\ \A c \in 1..(Len(cs) - 1) :
               SetMin(DOMAIN cs[c + 1]) = SetMax(DOMAIN cs[c]) + 1

\* chunk_pages returned several chunks, the last one shorter than the others
C9_ShortLastChunk ==
    /\ probe.op = "chunk_pages" /\ probe.returned
    /\ Len(probe.ret) >= 2
    /\ Cardinality(DOMAIN probe.ret[1]) = probe.chunk_size
    /\ Cardinality(DOMAIN probe.ret[Len(probe.ret)]) < probe.chunk_size

\* C10: for a text of two or more JSON objects printed one after another
\* the sanitizer returns the array text of these objects in their order;
\* for {"a":1}{"b":2} it returns [{"a":1},{"b":2}].
C10_ConcatenatedObjectsWrapped ==
    (probe.op = "sanitize_model_json" /\ probe.returned /\ Len(probe.blocks) >= 2) =>
       probe.ret = <<"[">> \o JoinComma(probe.blocks) \o <<"]">>

\* the text the sanitizer works on: the input without surrounding
\* whitespace, code fences and think tags
StrippedText(raw) == THINK_TAG_RE_sub(FENCE_RE_sub(Strip(raw)))

Closer(opener) == IF opener = "[" THEN "]" ELSE "}"

\* no opening bracket of the text starts a balanced array or object
NoBalanced(text) ==
    \A j \in 1..Len(text) :
       text[j] \in {"[", "{"} => BalancedEnd(text, j, text[j], Closer(text[j])) = 0

\* none of the sanitizer's recovery steps finds a JSON value in the text
NothingRecoverable(text) ==
    /\ ~json_loads(text).ok
    /\ NoBalanced(text)
    /\ NoBalanced(SoftQuotes(text))

\* the character at j stands inside a string literal of the text
InsideString(text, j) ==
    Cardinality({k \in 1..(j - 1) : text[k] = DQ /\ ~Escaped(text, 1, k)}) % 2 = 1

\* the opening brackets outside string literals that start a balanced value
TopLevelStarts(text) ==
    {j \in 1..Len(text) :
        /\ text[j] \in {"[", "{"}
        /\ ~InsideString(text, j)
        /\ BalancedEnd(text, j, text[j], Closer(text[j])) # 0}

\* the balanced value whose opening bracket comes first in the text
FirstTopLevelValue(text) ==
    LET j == SetMin(TopLevelStarts(text))
    IN  SubSeq(text, j, BalancedEnd(text, j, text[j], Closer(text[j])))

\* C11: for a text that is valid JSON the sanitizer returns a text that
\* parses to the same structure as the input, also when strings of the
\* JSON hold code fence markers or think tags.
C11_ValidJsonRoundTrip ==
    (probe.op = "sanitize_model_json" /\ probe.returned /\ json_loads(probe.raw).ok) =>
       /\ json_loads(probe.ret).ok
       /\ json_loads(probe.ret).val = json_loads(probe.raw).val

\* C12 as stated: when no recovery step finds a JSON value the sanitizer
\* returns its input text unchanged, character for character.
C12_ReturnsInputUnchanged ==
    (probe.op = "sanitize_model_json" /\ probe.returned
       /\ NothingRecoverable(StrippedText(probe.raw))) =>
       probe.ret = probe.raw

\* C12 amended: when no recovery step finds a JSON value the sanitizer
\* returns the stripped text (the input without surrounding whitespace,
\* code fences and think tags) with nothing else changed; it is the input
\* itself when the input has none of these.
C12_ReturnsStrippedText ==
    (probe.op = "sanitize_model_json" /\ probe.returned
       /\ NothingRecoverable(StrippedText(probe.raw))) =>
       /\ probe.ret = StrippedText(probe.raw)
       /\ (/\ probe.raw = Strip(probe.raw)
           /\ \A i \in 1..Len(probe.raw) : probe.raw[i] \notin ThinkTags \cup {FENCE})
             => probe.ret = probe.raw

\* the sanitizer gave up on a fenced text and on a text with quotes only:
\* the first comes back without its fence, the second as it is
C12_GaveUp ==
    /\ probe.op = "sanitize_model_json" /\ probe.returned
    /\ NothingRecoverable(StrippedText(probe.raw))
    /\ \/ /\ probe.raw = <<FENCE, "json", NL, "oops", NL, FENCE>>
          /\ probe.ret = <<"oops">>
       \/ /\ probe.raw = <<SQ, "a", SQ>>
          /\ probe.ret = probe.raw

\* C13: when the stripped text is not valid JSON but holds a balanced
\* array or object, the sanitizer returns the one whose opening bracket
\* comes first in the text, brackets inside string literals not counted.
C13_FirstTopLevelValue ==
    (probe.op = "sanitize_model_json" /\ probe.returned
       /\ ~json_loads(StrippedText(probe.raw)).ok
       /\ TopLevelStarts(StrippedText(probe.raw)) # {}) =>
       probe.ret = FirstTopLevelValue(StrippedText(probe.raw))

\* the totals of the compared reports
ComparedTotals == {probe.reports[m].total_credits : m \in DOMAIN probe.reports}

\* the compared reports have exactly these totals, in hundredths
TotalsAre(totals) ==
    /\ probe.op = "compare_models" /\ probe.returned
    /\ DOMAIN probe.reports = DOMAIN totals
    /\ \A m \in DOMAIN totals : probe.reports[m].total_credits = totals[m]

C15_SpreadExamples ==
    /\ TotalsAre([m \in {"A", "B", "C"} |->
                    IF m = "A" THEN 100000 ELSE IF m = "B" THEN 100050 ELSE 99980])
         => probe.ret.range.spread = 120 /\ ~probe.ret.agreement
    /\ TotalsAre([m \in {"A", "B"} |-> IF m = "A" THEN 100000 ELSE 100040])
         => probe.ret.range.spread = 40 /\ probe.ret.agreement

\* C15 amended: totals 1000.00, 1000.50, 999.80 give spread 0.7 (1000.50
\* less 999.80) and agreement; totals 1000.00, 1000.40 give spread 0.4 and
\* agreement.
C15_SpreadExamplesAgree ==
    /\ TotalsAre([m \in {"A", "B", "C"} |->
                    IF m = "A" THEN 100000 ELSE IF m = "B" THEN 100050 ELSE 99980])
         => probe.ret.range.spread = 70 /\ probe.ret.agreement
    /\ TotalsAre([m \in {"A", "B"} |-> IF m = "A" THEN 100000 ELSE 100040])
         => probe.ret.range.spread = 40 /\ probe.ret.agreement

\* compare_models returned for the totals 1000.00, 1000.50, 999.80
C15_ThreeTotals ==
    /\ TotalsAre([m \in {"A", "B", "C"} |->
                    IF m = "A" THEN 100000 ELSE IF m = "B" THEN 100050 ELSE 99980])
    /\ probe.ret.range.min = 99980 /\ probe.ret.range.max = 100050

\* the sum, in thousandths, of the amounts of the credits among txs[1..i]
RECURSIVE CreditThousandths(_, _)
CreditThousandths(txs, i) ==
    IF i = 0 THEN 0
    ELSE CreditThousandths(txs, i - 1)
           + (IF txs[i].type = "credit"
                THEN txs[i].amount.m * Pow10(3 - txs[i].amount.e) ELSE 0)

\* r hundredths is s thousandths rounded to 2 decimals: the nearest
\* hundredth, the even one of two equally near
IsRounded(r, s) ==
    LET d == IF 10 * r >= s THEN 10 * r - s ELSE s - 10 * r
    IN  d < 5 \/ (d = 5 /\ r % 2 = 0)

\* the pages without their debits
WithoutDebits(pages) ==
    [p \in 1..Len(pages) |->
       [pages[p] EXCEPT !.transactions = SelectSeq(@, LAMBDA t : t.type = "credit")]]

\* C16: the report of aggregate lists the transactions of the pages in
\* order, and its total_credits and total_income both are the sum, rounded
\* to 2 decimals, of the amounts of the credits it lists; the debits do not
\* change the total, and no page gives total 0 and no transaction.
C16_TotalIsSumOfCredits ==
    (probe.op = "aggregate" /\ probe.returned) =>
       /\ probe.ret.transactions = FlattenTxs(probe.pages)
       /\ IsRounded(probe.ret.total_credits,
                    CreditThousandths(probe.ret.transactions,
                                      Len(probe.ret.transactions)))
       /\ probe.ret.total_income = probe.ret.total_credits
       /\ probe.ret.total_credits = aggregate(WithoutDebits(probe.pages)).total_credits
       /\ (\A p \in 1..Len(probe.pages) : probe.pages[p].transactions = <<>>) =>
             probe.ret.total_credits = 0 /\ probe.ret.transactions = <<>>

\* aggregate returned for credits of 100 and 58.5 and a debit of 40: the
\* total is 158.5
C16_CreditsAndDebit ==
    /\ probe.op = "aggregate" /\ probe.returned
    /\ Len(probe.ret.transactions) = 3
    /\ probe.ret.transactions[1].amount = [m |-> 100, e |-> 0]
    /\ probe.ret.transactions[2].type = "debit"
    /\ probe.ret.transactions[3].amount = [m |-> 585, e |-> 1]
    /\ probe.ret.total_credits = 15850
    /\ probe.ret.total_income = 15850

\* C17: a model whose stored texts yield no page over all chunks of the
\* job ends a completed job with an error entry, the ValueError of the
\* final pass, and without a report; so does a model that answered every
\* chunk with an empty array, each call returned and accepted.
C17_NoPagesIsModelFailure ==
    pc = "done" =>
      \A m \in Range(use_models) :
         ~HasPages(m) =>
            /\ m \notin DOMAIN response.by_model
            /\ m \in DOMAIN response.errors
            /\ response.errors[m] = <<"ValueError">>

\* a completed job of two chunks in which a model answered both with an
\* empty array: no repair was issued for it and it has an error, no report
C17_EmptyArrays ==
    /\ pc = "done"
    /\ Len(chunks) = 2
    /\ \E m \in Range(use_models) :
         /\ \A n \in 1..Len(net) :
               net[n].model = m =>
                  net[n].kind = "call" /\ net[n].st = "returned" /\ net[n].text = RespEmpty
         /\ per_model_raw[m] = <<RespEmpty, RespEmpty>>
         /\ m \in DOMAIN response.errors
         /\ m \notin DOMAIN response.by_model

\* C18: every transaction the parser accepts, and so every transaction of
\* a report, has an amount above zero; no report has a total below zero.
C18_AmountsArePositive ==
    (probe.op = "parse_llm_json" /\ probe.returned /\ probe.ret.ok) =>
       /\ \A p \in 1..Len(probe.ret.pages) :
            \A t \in 1..Len(probe.ret.pages[p].transactions) :
               probe.ret.pages[p].transactions[t].amount.m > 0
       /\ probe.reported => probe.report.total_credits >= 0

\* the steps of the history that belong to one chunk
ChunkSteps ==
    {"Chunk: sending to models", "repaired JSON", "repair failed", "Chunk complete"}

\* the history of the job, [] before the job is registered
History == IF job_id \in DOMAIN PROGRESS THEN PROGRESS[job_id].history ELSE <<>>

\* the positions of the history holding a step of chunk c
StepsOf(c) ==
    {i \in 1..Len(History) : History[i].step \in ChunkSteps /\ History[i].chunk = c}

\* C19: the chunks of a job are processed one after the other.  While a
\* call of a chunk is issued, no call of an earlier chunk is pending, every
\* entry of every earlier chunk has had its repair when its response was
\* rejected, and the calls were issued in chunk order; the history lists
\* the steps of a chunk, from "sending to models" to "complete", before any
\* step of the next chunk.
C19_ChunksAreSequential ==
    /\ \A c \in {net[n].chunk : n \in 1..Len(net)} :
         (\E n \in 1..Len(net) : net[n].chunk > c) =>
            /\ \A k \in 1..Len(net) : net[k].chunk = c => net[k].st # "pending"
            /\ \A p \in 1..Len(use_models) :
                  Cardinality(CallsOf("repair", c, p))
                    = IF Parsed(InitialResponse(c, use_models[p])).ok THEN 0 ELSE 1
    /\ \A n, k \in 1..Len(net) :
         /\ k < n => net[k].chunk <= net[n].chunk
         /\ (net[n].kind = "repair" /\ net[k].kind = "call" /\ net[k].chunk = net[n].chunk)
              => net[k].st # "pending"
    /\ \A i, j \in 1..Len(History) :
         (i < j /\ History[i].step \in ChunkSteps /\ History[j].step \in ChunkSteps)
           => History[i].chunk <= History[j].chunk
    /\ \A c \in 1..idx :
         /\ StepsOf(c) # {}
         /\ History[SetMin(StepsOf(c))].step = "Chunk: sending to models"
         /\ c < idx => History[SetMax(StepsOf(c))].step = "Chunk complete"

\* the call of a second chunk is pending after a first chunk whose
\* response was rejected and repaired
C19_SecondChunkAfterRepair ==
    /\ pc = "fanout" /\ idx = 2
    /\ \E n \in 1..Len(net) : net[n].chunk = 2 /\ net[n].st = "pending"
    /\ \E n \in 1..Len(net) : net[n].chunk = 1 /\ net[n].kind = "repair"
    /\ \E i \in StepsOf(1) : History[i].step = "repaired JSON"

\* the calls of the job that are in flight
InFlight == {n \in 1..Len(net) : net[n].st = "pending"}

\* C20: at every moment the calls of the job in flight, initial calls and
\* repair calls together, are at most as many as the model list is long;
\* a repair call is in flight alone.
C20_InFlightAtMostModels ==
    /\ Cardinality(InFlight) <= Len(use_models)
    /\ \A n \in InFlight : net[n].kind = "repair" => InFlight = {n}

\* the fan-out of three models with all three calls in flight
C20_FullFanout ==
    /\ pc = "fanout"
    /\ Len(use_models) = 3
    /\ Cardinality(InFlight) = 3

\* C21: the fan-out of a chunk is joined before any repair, and repairs run
\* one at a time.  When a repair call is issued every call issued before it,
\* the initial calls of its chunk and the earlier repairs, has completed;
\* while it is in flight the handler waits for it and issues nothing else,
\* so it is the only call of the job in flight.
C21_RepairsRunAlone ==
    \A n \in 1..Len(net) :
       net[n].kind = "repair" =>
          /\ \A k \in 1..(n - 1) : net[k].st # "pending"
          /\ \A p \in 1..Len(use_models) :
                /\ CallsOf("call", net[n].chunk, p) # {}
                /\ TheCall("call", net[n].chunk, p).st # "pending"
          /\ net[n].st = "pending" =>
                /\ n = Len(net)
                /\ pc = "repair" /\ idx = net[n].chunk /\ mi = net[n].pos
                /\ InFlight = {n}

\* the repair call of the second model of a chunk is in flight after the
\* repair call of the first model of the same chunk completed
C21_SecondRepairInFlight ==
    /\ pc = "repair" /\ mi = 2
    /\ Len(use_models) >= 2
    /\ CallsOf("repair", idx, 1) # {}
    /\ TheCall("repair", idx, 1).st # "pending"
    /\ CallsOf("repair", idx, 2) # {}
    /\ TheCall("repair", idx, 2).st = "pending"
    /\ \E n \in 1..Len(net) : net[n].kind = "call" /\ net[n].st = "raised"

\* the handler is inside a progress operation on the entry of its job
WriterInside == probe.op = "poll" /\ probe.w.at # "-"

\* the poller is inside get_progress for the entry of the job
ReaderInside == probe.op = "poll" /\ probe.r.at = "checked" /\ probe.r.job = PollJob

\* an entry as it is between two progress operations: the last step is the
\* last of the history, the models have the same time, and as many chunks
\* are done as the handler has counted
Settled(entry) ==
    /\ entry.history # <<>> => entry.last_step = entry.history[Len(entry.history)]
    /\ \A m, n \in DOMAIN entry.per_model_ms : entry.per_model_ms[m] = entry.per_model_ms[n]

\* C22: a read of the job's entry by get_progress never overlaps a write of
\* the handler to it: the poller is never inside get_progress while the
\* handler is inside init, bump, the chunks_done increment or finish, and
\* the entry it returns is never one in the middle of an update.
C22_AccessesMutuallyExclusive ==
    probe.op = "poll" =>
       /\ ~(WriterInside /\ ReaderInside)
       /\ (probe.r.status = 200 /\ probe.r.job = PollJob) => Settled(probe.r.body)

\* h grew into g by appending only
GrewByAppending(h, g) ==
    /\ Len(g) >= Len(h)
    /\ SubSeq(g, 1, Len(h)) = h

\* C23: in every state of a job's progress entry chunks_done is between 0
\* and chunks_total, and it equals chunks_total once finished_at is set; in
\* every step the entry stays, chunks_total stays, chunks_done does not
\* decrease (it grows by at most 1) and the history keeps what it held and
\* grows only at its end.
C23_ProgressEntryInvariants ==
    /\ [](\A j \in DOMAIN PROGRESS :
            /\ PROGRESS[j].chunks_done >= 0
            /\ PROGRESS[j].chunks_done <= PROGRESS[j].chunks_total
            /\ PROGRESS[j].finished_at => PROGRESS[j].chunks_done = PROGRESS[j].chunks_total)
    /\ [][\A j \in DOMAIN PROGRESS :
            /\ j \in DOMAIN PROGRESS'
            /\ PROGRESS'[j].chunks_total = PROGRESS[j].chunks_total
            /\ PROGRESS'[j].chunks_done >= PROGRESS[j].chunks_done
            /\ PROGRESS'[j].chunks_done <= PROGRESS[j].chunks_done + 1
            /\ GrewByAppending(PROGRESS[j].history, PROGRESS'[j].history)]_vars

\* a finished job of two chunks, the response to one repaired and the
\* repair of the other failed: both chunks are counted and the history
\* holds the steps of both
C23_FinishedTwoChunks ==
    /\ pc = "done"
    /\ JobStarted
    /\ PROGRESS[job_id].finished_at
    /\ PROGRESS[job_id].chunks_total = 2
    /\ PROGRESS[job_id].chunks_done = 2
    /\ \E i \in 1..Len(History) : History[i].step = "repaired JSON"
    /\ \E i \in 1..Len(History) : History[i].step = "repair failed"
    /\ History[Len(History)].step = "Comparison complete"

\* the model names of the job are distinct
DistinctModels == Cardinality(Range(use_models)) = Len(use_models)

\* entry (c, p) ended FAILED: the initial response was rejected and the
\* repair call raised or returned a text the parser rejects
ChunkFailed(c, p) ==
    /\ ~Parsed(OwnOutcome(c, p)).ok
    /\ CallsOf("repair", c, p) # {}
    /\ \/ TheCall("repair", c, p).st = "raised"
       \/ /\ TheCall("repair", c, p).st = "returned"
          /\ ~Parsed(TheCall("repair", c, p).text).ok

\* the chunks of the model at position p that ended FAILED
FailedChunks(p) == {c \in 1..Len(chunks) : ChunkFailed(c, p)}

\* C24: in the result of a completed job with distinct model names a model
\* has an error entry exactly when one of its chunks ended FAILED or its
\* stored texts yield no page at all, and a report exactly when one of its
\* stored texts parses to a non-empty page list.  A chunk that passed
\* validation in the chunk loop has a stored text the final pass accepts:
\* the final pass records one error per FAILED chunk and none for another
\* chunk, or the one ValueError of a model without pages.
C24_ErrorsAndReports ==
    (pc = "done" /\ DistinctModels) =>
       \A p \in 1..Len(use_models) :
          LET m == use_models[p]
          IN  /\ m \in DOMAIN response.errors
                   <=> (FailedChunks(p) # {} \/ PageList(per_model_raw[m]) = <<>>)
              /\ m \in DOMAIN response.by_model
                   <=> \E c \in 1..Len(chunks) :
                          /\ Parsed(Stored(c, p)).ok
                          /\ Parsed(Stored(c, p)).pages # <<>>
              /\ \A c \in 1..Len(chunks) :
                    ~ChunkFailed(c, p) => Parsed(Stored(c, p)).ok
              /\ m \in DOMAIN response.errors =>
                    IF PageList(per_model_raw[m]) = <<>>
                      THEN response.errors[m] = <<"ValueError">>
                      ELSE Len(response.errors[m]) = Cardinality(FailedChunks(p))

\* a completed job in which a model passed one chunk by its repair and
\* ended another FAILED: it has a report and one error
C24_RepairedAndFailed ==
    /\ pc = "done" /\ DistinctModels
    /\ \E p \in 1..Len(use_models) :
         /\ \E c \in 1..Len(chunks) :
               RepairAccepted(c, p) /\ Parsed(Stored(c, p)).pages # <<>>
         /\ Cardinality(FailedChunks(p)) = 1
         /\ use_models[p] \in DOMAIN response.by_model
         /\ use_models[p] \in DOMAIN response.errors
         /\ Len(response.errors[use_models[p]]) = 1

====
